---------------------------- MODULE Spec2Model ----------------------------
(***************************************************************************)
(* A model of the execution core of the Gauche virtual machine (src/vm.c): *)
(* the value stack with its environment and continuation frames, the      *)
(* promotion of frames to the heap (save_env, save_cont, save_stack,      *)
(* get_env), dynamic-wind, and capture and reinstatement of continuations.*)
(*                                                                         *)
(* Memory is modelled word by word.  A pointer is an integer: 0 is NULL,  *)
(* stackBase .. stackEnd-1 are the words of the value stack, and a        *)
(* negative number -k is the address of the k-th block allocated from the *)
(* heap.  A frame header lies in consecutive stack words in the order in  *)
(* which PUSH_CONT and FINISH_ENV store its fields.                        *)
(***************************************************************************)
EXTENDS Integers, Sequences, FiniteSets, TLC

VARIABLES
    vm,        \* the ScmVM under test (registers, stack, heap, chains)
    ref,       \* the same VM run on the same instructions without promotion,
               \* or a second VM
    nsteps,    \* number of instructions executed so far
    last,      \* the last instruction executed
    threads,   \* the threads of the process: where each one is
    port       \* a port the threads share

vars == <<vm, ref, nsteps, last, threads, port>>

----------------------------------------------------------------------------
(* Bounds of the model. *)

StackSize == 24      \* SCM_VM_STACK_SIZE, scaled down
MaxSteps == 2        \* instructions per run, after the run's prefix
MaxEps == 2          \* escape points made in one run
MaxCStack == 3       \* host-stack records made in one run
ArgCounts == {1, 2}  \* arguments pushed by one Scm_VMApplyN
DataSizes == {0, 1}  \* opaque words of a C continuation in the stack runs
RefStackSize == StackSize * 6  \* stack of the promotion-free reference run
SCM_VM_MAX_VALUES == 3  \* the multiple-value cap, scaled down

----------------------------------------------------------------------------
(* Program constants. *)

(* Addresses: 0 is NULL, small positive numbers are stack words, negative *)
(* numbers are heap blocks.  Immediate objects and the addresses of       *)
(* static data are numbers above every stack address.                     *)
NULL == 0
SCM_FALSE == 9001
SCM_UNDEFINED == 9002
SCM_NIL == 9003
PC_TO_RETURN == 9004        \* address of the static RET instruction
EX_SOFTWARE == 70
boundaryFrameMark == 9005   \* address of the static boundary mark
DEFAULT_EXCEPTION_HANDLER == 9006
Indeterminate == 9007       \* the content of a local that was never set
SCM_UNBOUND == 9008

(* Field offsets of the in-stack frame headers. *)
ContField == [prev |-> 0, env |-> 1, argp |-> 2, size |-> 3, pc |-> 4, base |-> 5]
EnvField == [up |-> 0, info |-> 1, size |-> 2]
CONT_FRAME_SIZE == Cardinality(DOMAIN ContField)
ENV_HDR_SIZE == Cardinality(DOMAIN EnvField)
ENV_SIZE(n) == n + ENV_HDR_SIZE

----------------------------------------------------------------------------
(* The port lock (gauche/port.h).  Several VMs, each in its own thread, *)
(* lock and unlock one port; a step is one access to the port or to the *)
(* fastlock.  threads[t] is the thread of the VM t: where it is in      *)
(* PORT_LOCK or PORT_UNLOCK, its local owner__, the state of its VM,    *)
(* and the number of its locks that it has not unlocked.                *)

NumInstances == 3    \* the VMs that use the port
MaxAttachCalls == 1
MaxLockCount == 2    \* nested locks of one VM

Instances == 1..NumInstances

(* One step of PORT_LOCK(p, vm) by the thread of the VM t, with a       *)
(* fastlock anyone can lock at any time.                                *)
PORT_LOCK_without_fastlock(p, ths, t) ==
    LET th == ths[t]
        at(pc) == [ths EXCEPT ![t].pc = pc]
    IN
    CASE th.pc = "PORT_LOCK" ->
            { [ port |-> p,
                threads |-> at(IF p.lockOwner # t THEN "FASTLOCK_LOCK" ELSE "lockCount++") ] }
      [] th.pc = "FASTLOCK_LOCK" ->
            { [ port |-> [p EXCEPT !.lock = t], threads |-> at("owner__") ] }
      [] th.pc = "owner__" ->
            { [ port |-> p,
                threads |-> [ths EXCEPT ![t].pc = "owner__ == NULL",
                                        ![t].owner__ = p.lockOwner] ] }
      [] th.pc = "owner__ == NULL" ->
            { [ port |-> p,
                threads |-> at(IF \/ th.owner__ = NULL
                                  \/ ths[th.owner__].state = "TERMINATED"
                               THEN "lockOwner = vm" ELSE "FASTLOCK_UNLOCK") ] }
      [] th.pc = "lockOwner = vm" ->
            { [ port |-> [p EXCEPT !.lockOwner = t], threads |-> at("lockCount = 1") ] }
      [] th.pc = "lockCount = 1" ->
            { [ port |-> [p EXCEPT !.lockCount = 1], threads |-> at("FASTLOCK_UNLOCK") ] }
      [] th.pc = "FASTLOCK_UNLOCK" ->
            { [ port |-> [p EXCEPT !.lock = NULL], threads |-> at("lockOwner == vm") ] }
      [] th.pc = "lockOwner == vm" ->
            { [ port |-> p,
                threads |-> IF p.lockOwner = t
                            THEN [ths EXCEPT ![t].pc = "idle", ![t].locks = @ + 1]
                            ELSE at("Scm_YieldCPU") ] }
      [] th.pc = "Scm_YieldCPU" ->
            { [ port |-> p, threads |-> at("FASTLOCK_LOCK") ] }
      [] th.pc = "lockCount++" ->
            { [ port |-> [p EXCEPT !.lockCount = @ + 1],
                threads |-> [ths EXCEPT ![t].pc = "idle", ![t].locks = @ + 1] ] }

(* One step of a PORT_LOCK(p, vm) that takes the port only when         *)
(* lockOwner is NULL.                                                   *)
PORT_LOCK_when_null(p, ths, t) ==
    LET th == ths[t]
        at(pc) == [ths EXCEPT ![t].pc = pc]
    IN
    CASE th.pc = "PORT_LOCK" ->
            { [ port |-> p,
                threads |-> at(IF p.lockOwner # t THEN "FASTLOCK_LOCK" ELSE "lockCount++") ] }
      [] th.pc = "FASTLOCK_LOCK" ->
            IF p.lock # NULL THEN {}
            ELSE { [ port |-> [p EXCEPT !.lock = t], threads |-> at("owner__") ] }
      [] th.pc = "owner__" ->
            { [ port |-> p,
                threads |-> [ths EXCEPT ![t].pc = "owner__ == NULL",
                                        ![t].owner__ = p.lockOwner] ] }
      [] th.pc = "owner__ == NULL" ->
            { [ port |-> p,
                threads |-> at(IF th.owner__ = NULL
                               THEN "lockOwner = vm" ELSE "FASTLOCK_UNLOCK") ] }
      [] th.pc = "lockOwner = vm" ->
            { [ port |-> [p EXCEPT !.lockOwner = t], threads |-> at("lockCount = 1") ] }
      [] th.pc = "lockCount = 1" ->
            { [ port |-> [p EXCEPT !.lockCount = 1], threads |-> at("FASTLOCK_UNLOCK") ] }
      [] th.pc = "FASTLOCK_UNLOCK" ->
            { [ port |-> [p EXCEPT !.lock = NULL], threads |-> at("lockOwner == vm") ] }
      [] th.pc = "lockOwner == vm" ->
            { [ port |-> p,
                threads |-> IF p.lockOwner = t
                            THEN [ths EXCEPT ![t].pc = "idle", ![t].locks = @ + 1]
                            ELSE at("Scm_YieldCPU") ] }
      [] th.pc = "Scm_YieldCPU" ->
            { [ port |-> p, threads |-> at("FASTLOCK_LOCK") ] }
      [] th.pc = "lockCount++" ->
            { [ port |-> [p EXCEPT !.lockCount = @ + 1],
                threads |-> [ths EXCEPT ![t].pc = "idle", ![t].locks = @ + 1] ] }

(* One step of PORT_LOCK(p, vm) by the thread of the VM t: the set of   *)
(* the states it can lead to, empty when the thread is blocked.         *)
PORT_LOCK(p, ths, t) ==
    LET th == ths[t]
        at(pc) == [ths EXCEPT ![t].pc = pc]
    IN
    CASE th.pc = "PORT_LOCK" ->
            { [ port |-> p,
                threads |-> at(IF p.lockOwner # t THEN "FASTLOCK_LOCK" ELSE "lockCount++") ] }
      [] th.pc = "FASTLOCK_LOCK" ->
            IF p.lock # NULL THEN {}
            ELSE { [ port |-> [p EXCEPT !.lock = t], threads |-> at("owner__") ] }
      [] th.pc = "owner__" ->
            { [ port |-> p,
                threads |-> [ths EXCEPT ![t].pc = "owner__ == NULL",
                                        ![t].owner__ = p.lockOwner] ] }
      [] th.pc = "owner__ == NULL" ->
            { [ port |-> p,
                threads |-> at(IF \/ th.owner__ = NULL
                                  \/ ths[th.owner__].state = "TERMINATED"
                               THEN "lockOwner = vm" ELSE "FASTLOCK_UNLOCK") ] }
      [] th.pc = "lockOwner = vm" ->
            { [ port |-> [p EXCEPT !.lockOwner = t], threads |-> at("lockCount = 1") ] }
      [] th.pc = "lockCount = 1" ->
            { [ port |-> [p EXCEPT !.lockCount = 1], threads |-> at("FASTLOCK_UNLOCK") ] }
      [] th.pc = "FASTLOCK_UNLOCK" ->
            { [ port |-> [p EXCEPT !.lock = NULL], threads |-> at("lockOwner == vm") ] }
      [] th.pc = "lockOwner == vm" ->
            { [ port |-> p,
                threads |-> IF p.lockOwner = t
                            THEN [ths EXCEPT ![t].pc = "idle", ![t].locks = @ + 1]
                            ELSE at("Scm_YieldCPU") ] }
      [] th.pc = "Scm_YieldCPU" ->
            { [ port |-> p, threads |-> at("FASTLOCK_LOCK") ] }
      [] th.pc = "lockCount++" ->
            { [ port |-> [p EXCEPT !.lockCount = @ + 1],
                threads |-> [ths EXCEPT ![t].pc = "idle", ![t].locks = @ + 1] ] }

(* One step of PORT_UNLOCK(p) that clears lockOwner whatever the count. *)
PORT_UNLOCK_at_once(p, ths, t) ==
    IF ths[t].pc = "PORT_UNLOCK"
    THEN { [ port |-> [p EXCEPT !.lockCount = @ - 1],
             threads |-> [ths EXCEPT ![t].pc = "lockOwner = NULL"] ] }
    ELSE { [ port |-> [p EXCEPT !.lockOwner = NULL],
             threads |-> [ths EXCEPT ![t].pc = "idle", ![t].locks = @ - 1] ] }

(* One step of PORT_UNLOCK(p) by the thread of the VM t. *)
PORT_UNLOCK(p, ths, t) ==
    IF ths[t].pc = "PORT_UNLOCK"
    THEN { [ port |-> [p EXCEPT !.lockCount = @ - 1],
             threads |-> IF p.lockCount - 1 <= 0
                         THEN [ths EXCEPT ![t].pc = "lockOwner = NULL"]
                         ELSE [ths EXCEPT ![t].pc = "idle", ![t].locks = @ - 1] ] }
    ELSE { [ port |-> [p EXCEPT !.lockOwner = NULL],
             threads |-> [ths EXCEPT ![t].pc = "idle", ![t].locks = @ - 1] ] }

PortLockSteps ==
    { "PORT_LOCK", "FASTLOCK_LOCK", "owner__", "owner__ == NULL", "lockOwner = vm",
      "lockCount = 1", "FASTLOCK_UNLOCK", "lockOwner == vm", "Scm_YieldCPU",
      "lockCount++" }

PortUnlockSteps == { "PORT_UNLOCK", "lockOwner = NULL" }


(* A port nobody has locked. *)
Scm_MakePort == [ lockOwner |-> NULL, lockCount |-> 0, lock |-> NULL ]

(* PORT_PRELOCK(p, vm): the constructor of a private port marks it      *)
(* locked by the VM t.                                                  *)
PORT_PRELOCK(p, t) == [p EXCEPT !.lockOwner = t, !.lockCount = 1]

(* The threads as a VM that runs alone sees them: its own is the thread *)
(* of the instance 1, and the VM of the instance 2 has ended.           *)
OwnThreads ==
    [t \in Instances |->
        [ pc |-> "idle", owner__ |-> NULL,
          state |-> IF t = 2 THEN "TERMINATED" ELSE "RUNNABLE", locks |-> 0 ]]

(* PORT_LOCK or PORT_UNLOCK from the step ths[1].pc to its last step,   *)
(* by the VM of the instance 1 when no other thread takes a step.       *)
RECURSIVE PortRun(_, _)
PortRun(p, ths) ==
    IF ths[1].pc = "idle" THEN p
    ELSE LET S == IF ths[1].pc \in PortLockSteps THEN PORT_LOCK(p, ths, 1)
                  ELSE PORT_UNLOCK(p, ths, 1)
             s == CHOOSE s \in S : TRUE
         IN  PortRun(s.port, s.threads)

----------------------------------------------------------------------------
(* The VM object. *)

(* The words of a block of memory, as a sequence. *)
Words(f) == SubSeq(f, 1, Len(f))

Scm_NewVM(size) ==
    [ stack |-> Words([a \in 1..size |-> NULL]),
      stackBase |-> 1,
      stackEnd |-> 1 + size,
      sp |-> 1,
      argp |-> 1,
      env |-> NULL,
      cont |-> NULL,
      pc |-> PC_TO_RETURN,
      base |-> NULL,
      val0 |-> SCM_UNDEFINED,
      vals |-> [i \in 1..SCM_VM_MAX_VALUES |-> SCM_UNDEFINED],
      numVals |-> 1,
      handlers |-> SCM_NIL,     \* dynamic handler list, innermost first
      heap |-> <<>>,            \* blocks allocated by SCM_NEW2
      cstack |-> NULL,          \* innermost host-stack record (index of cstk)
      cstk |-> <<>>,            \* the ScmCStack records of the host stack
      escapePoint |-> NULL,     \* innermost escape point (index of eps)
      escapePointFloating |-> NULL,
      eps |-> <<>>,             \* the ScmEscapePoint objects
      exceptionHandler |-> DEFAULT_EXCEPTION_HANDLER,
      escapeReason |-> "NONE",
      escapeData |-> << NULL, NULL >>,
      overflow |-> FALSE,       \* a word past stackEnd has been written
      exited |-> FALSE,         \* the process has exited
      exitStatus |-> 0,         \* with this status
      failed |-> FALSE,         \* an SCM_ASSERT failed or Scm_Panic was called
      attentionRequest |-> FALSE,
      signalPending |-> FALSE,
      finalizerPending |-> FALSE,
      stopRequest |-> FALSE,
      state |-> "NEW",          \* SCM_VM_NEW, SCM_VM_RUNNABLE, SCM_VM_STOPPED
      thread |-> NULL,          \* the OS thread the VM is attached to
      vmlock |-> "unlocked",    \* the thread that holds vm->vmlock, if one does
      cond |-> {},              \* the threads that sleep in a wait on vm->cond
      interrupted |-> <<>>,     \* the VM at each interruption not yet resumed
      port |-> Scm_MakePort,    \* the port that the native code of the VM uses
      next |-> [op |-> "host"], \* what runs next (see Control flow)
      trace |-> <<>>,           \* the Scheme procedures called so far
      events |-> <<>>,          \* the long jumps and returns of the last instruction
      reuse |-> FALSE,          \* the next ScmCStack takes the address of a dead one
      nframes |-> 0 ]           \* the host frames with a record made so far

(* The VM of the primordial thread, which Scm__InitVM makes and         *)
(* attaches; the runs of one VM are runs of this VM.                    *)
Scm__InitVM(size) == [Scm_NewVM(size) EXCEPT !.thread = 1, !.state = "RUNNABLE"]

SCM_INTERNAL_THREAD_INITIALIZED_P(thr) == thr # NULL

(* One step of Scm_AttachVM(vm) by the OS thread t, which is at th.pc:  *)
(* the VM object v and the thread after the step.  theVM is the value   *)
(* of the thread's key vm_key, the index of a VM or NULL; the call of   *)
(* pthread_setspecific may fail.  A call that has returned leaves its   *)
(* result in th.ret.                                                    *)
Scm_AttachVM(v, th, t) ==
    LET return(r) == [th EXCEPT !.pc = "idle", !.ret = r] IN
    CASE th.pc = "Scm_AttachVM" ->
            IF SCM_INTERNAL_THREAD_INITIALIZED_P(v.thread)
            THEN { [ v |-> v, th |-> return(FALSE) ] }
            ELSE { [ v |-> v, th |-> [th EXCEPT !.pc = "theVM != NULL"] ] }
      [] th.pc = "theVM != NULL" ->
            IF th.theVM # NULL
            THEN { [ v |-> v, th |-> return(FALSE) ] }
            ELSE { [ v |-> v, th |-> [th EXCEPT !.pc = "pthread_setspecific"] ] }
      [] th.pc = "pthread_setspecific" ->
            { [ v |-> v, th |-> return(FALSE) ],
              [ v |-> v, th |-> [th EXCEPT !.theVM = th.arg,
                                           !.pc = "thread = pthread_self"] ] }
      [] th.pc = "thread = pthread_self" ->
            { [ v |-> [v EXCEPT !.thread = t],
                th |-> [th EXCEPT !.pc = "state = RUNNABLE"] ] }
      [] th.pc = "state = RUNNABLE" ->
            { [ v |-> [v EXCEPT !.state = "RUNNABLE"], th |-> return(TRUE) ] }

(* A function of the VM that is called from many places is called by   *)
(* its name: Call(f, v, a), defined below, is f(v) or f(v, a).         *)
RECURSIVE Call(_, _, _)

IN_STACK_P(v, ptr) == ptr - v.stackBase >= 0 /\ ptr - v.stackBase < v.stackEnd - v.stackBase
HEAP_P(ptr) == ptr < 0

(* A store through a stack pointer.  A store past the end of the stack    *)
(* array is undefined behaviour: the model records it and stops there.    *)
Wr(v, a, w) ==
    IF IN_STACK_P(v, a) THEN [v EXCEPT !.stack[a] = w]
    ELSE [v EXCEPT !.overflow = TRUE]

Rd(v, a) == IF IN_STACK_P(v, a) THEN v.stack[a] ELSE NULL

(* Consecutive stores: the words ws at the addresses a, a + 1, ... *)
WrSeq(v, a, ws) ==
    [v EXCEPT !.stack = Words([x \in DOMAIN v.stack |->
                                  IF x >= a /\ x < a + Len(ws) THEN ws[x - a + 1]
                                  ELSE v.stack[x]]),
              !.overflow = @ \/ \E x \in a..(a + Len(ws) - 1) : ~IN_STACK_P(v, x)]

RdSeq(v, a, n) == [i \in 1..n |-> Rd(v, a + i - 1)]

(* Field access through a frame pointer that is in the stack or the heap. *)
CGet(v, c, f) == IF HEAP_P(c) THEN v.heap[-c][f] ELSE Rd(v, c + ContField[f])
CSet(v, c, f, w) ==
    IF HEAP_P(c) THEN [v EXCEPT !.heap[-c][f] = w] ELSE Wr(v, c + ContField[f], w)
EGet(v, e, f) == IF HEAP_P(e) THEN v.heap[-e][f] ELSE Rd(v, e + EnvField[f])
ESet(v, e, f, w) ==
    IF HEAP_P(e) THEN [v EXCEPT !.heap[-e][f] = w] ELSE Wr(v, e + EnvField[f], w)

(* SCM_NEW2: a fresh heap block; its address is -(index). *)
Alloc(v, blk) == [v EXCEPT !.heap = Append(@, blk)]
NewPtr(v) == -(Len(v.heap) + 1)

BOUNDARY_FRAME_P(v, c) == CGet(v, c, "pc") = boundaryFrameMark

CONT_FRAME_END(v, c) ==
    IF CGet(v, c, "argp") # NULL THEN c + CONT_FRAME_SIZE
    ELSE c + CONT_FRAME_SIZE + CGet(v, c, "size")

FORWARDED_ENV_P(v, e) == e # NULL /\ EGet(v, e, "size") = -1
FORWARDED_ENV(v, e) == EGet(v, e, "up")
FORWARDED_CONT_P(v, c) == c # NULL /\ CGet(v, c, "size") = -1
FORWARDED_CONT(v, c) == CGet(v, c, "prev")


----------------------------------------------------------------------------
(* Micro-operations of the interpreter. *)

PUSH_ARG(v, obj) == [Wr(v, v.sp, obj) EXCEPT !.sp = v.sp + 1]

PushArgs(v, objs) == [WrSeq(v, v.sp, objs) EXCEPT !.sp = v.sp + Len(objs)]

PUSH_CONT(v, next_pc) ==
    LET newcont == v.sp
        w == WrSeq(v, newcont,
                   << v.cont, v.env, v.argp, v.sp - v.argp, next_pc, v.base >>)
    IN  [w EXCEPT !.cont = newcont,
                  !.sp = v.sp + CONT_FRAME_SIZE,
                  !.argp = v.sp + CONT_FRAME_SIZE]

(* The saved words of a continuation frame: for an in-stack Scheme frame  *)
(* the argument block at argp, for an in-stack C continuation the words   *)
(* after the header, for a heap frame the words copied with it.           *)
ContData(v, c) ==
    IF HEAP_P(c) THEN v.heap[-c].data
    ELSE IF CGet(v, c, "argp") = NULL
         THEN RdSeq(v, c + CONT_FRAME_SIZE, CGet(v, c, "size"))
         ELSE RdSeq(v, CGet(v, c, "argp"), CGet(v, c, "size"))

(* POP_CONT that does not bring the saved arguments of a heap frame back *)
(* to the stack.                                                         *)
POP_CONT_no_copy(v) ==
    LET c == v.cont IN
    IF CGet(v, c, "argp") = NULL THEN
        LET sp1 == IF IN_STACK_P(v, c) THEN c ELSE v.sp
        IN  [ v |-> [v EXCEPT !.sp = sp1,
                              !.env = CGet(v, c, "env"),
                              !.argp = sp1,
                              !.pc = PC_TO_RETURN,
                              !.base = CGet(v, c, "base"),
                              !.cont = CGet(v, c, "prev")],
              ccall |-> << CGet(v, c, "pc"), v.val0, ContData(v, c) >> ]
    ELSE
        LET inStack == IN_STACK_P(v, c)
            argp1 == IF inStack THEN CGet(v, c, "argp") ELSE v.stackBase
        IN  [ v |-> [v EXCEPT !.sp = argp1 + CGet(v, c, "size"),
                              !.env = CGet(v, c, "env"),
                              !.argp = argp1,
                              !.pc = CGet(v, c, "pc"),
                              !.base = CGet(v, c, "base"),
                              !.cont = CGet(v, c, "prev")],
              ccall |-> <<>> ]

(* POP_CONT that leaves sp where it is when it pops a C continuation.    *)
POP_CONT_ccont_keeps_sp(v) ==
    LET c == v.cont IN
    IF CGet(v, c, "argp") = NULL THEN
        [ v |-> [v EXCEPT !.env = CGet(v, c, "env"),
                          !.argp = v.sp,
                          !.pc = PC_TO_RETURN,
                          !.base = CGet(v, c, "base"),
                          !.cont = CGet(v, c, "prev")],
          ccall |-> << CGet(v, c, "pc"), v.val0, ContData(v, c) >> ]
    ELSE IF IN_STACK_P(v, c) THEN
        [ v |-> [v EXCEPT !.sp = CGet(v, c, "argp") + CGet(v, c, "size"),
                          !.env = CGet(v, c, "env"),
                          !.argp = CGet(v, c, "argp"),
                          !.pc = CGet(v, c, "pc"),
                          !.base = CGet(v, c, "base"),
                          !.cont = CGet(v, c, "prev")],
          ccall |-> <<>> ]
    ELSE
        LET size == CGet(v, c, "size")
            w == WrSeq(v, v.stackBase, ContData(v, c))
        IN  [ v |-> [w EXCEPT !.argp = v.stackBase,
                              !.sp = v.stackBase + size,
                              !.env = CGet(v, c, "env"),
                              !.pc = CGet(v, c, "pc"),
                              !.base = CGet(v, c, "base"),
                              !.cont = CGet(v, c, "prev")],
          ccall |-> <<>> ]

(* POP_CONT up to, and not including, the call of a C continuation's      *)
(* procedure.  ccall is <<>> for a Scheme frame and <<after, val0, data>> *)
(* for a C continuation, which the caller of POP_CONT then invokes.       *)
POP_CONT(v) ==
    LET c == v.cont IN
    IF CGet(v, c, "argp") = NULL THEN
        LET sp1 == IF IN_STACK_P(v, c) THEN c ELSE v.sp
        IN  [ v |-> [v EXCEPT !.sp = sp1,
                              !.env = CGet(v, c, "env"),
                              !.argp = sp1,
                              !.pc = PC_TO_RETURN,
                              !.base = CGet(v, c, "base"),
                              !.cont = CGet(v, c, "prev")],
              ccall |-> << CGet(v, c, "pc"), v.val0, ContData(v, c) >> ]
    ELSE IF IN_STACK_P(v, c) THEN
        [ v |-> [v EXCEPT !.sp = CGet(v, c, "argp") + CGet(v, c, "size"),
                          !.env = CGet(v, c, "env"),
                          !.argp = CGet(v, c, "argp"),
                          !.pc = CGet(v, c, "pc"),
                          !.base = CGet(v, c, "base"),
                          !.cont = CGet(v, c, "prev")],
          ccall |-> <<>> ]
    ELSE
        LET size == CGet(v, c, "size")
            w == WrSeq(v, v.stackBase, ContData(v, c))
        IN  [ v |-> [w EXCEPT !.argp = v.stackBase,
                              !.sp = v.stackBase + size,
                              !.env = CGet(v, c, "env"),
                              !.pc = CGet(v, c, "pc"),
                              !.base = CGet(v, c, "base"),
                              !.cont = CGet(v, c, "prev")],
              ccall |-> <<>> ]

FINISH_ENV(v, info, up) ==
    LET e == v.sp
        w == WrSeq(v, e, << up, info, v.sp - v.argp >>)
    IN  [w EXCEPT !.sp = v.sp + ENV_HDR_SIZE,
                  !.argp = v.sp + ENV_HDR_SIZE,
                  !.env = e]

PUSH_LOCAL_ENV(v, size, info) ==
    FINISH_ENV(PushArgs(v, [i \in 1..size |-> SCM_UNDEFINED]), info, v.env)

(* for (c=0; c<argc; c++) *t++ = *a++;  one word at a time, upward *)
RECURSIVE CopyUp(_, _, _, _)
CopyUp(v, t, a, n) ==
    IF n <= 0 THEN v ELSE CopyUp(Wr(v, t, Rd(v, a)), t + 1, a + 1, n - 1)

(* DISCARD_ENV that drops the environment and leaves the arguments where *)
(* they are.                                                             *)
DISCARD_ENV_no_shift(v) == [v EXCEPT !.env = NULL]

DISCARD_ENV(v) ==
    LET argc == v.sp - v.argp
        to == IF IN_STACK_P(v, v.cont) THEN CONT_FRAME_END(v, v.cont)
              ELSE v.stackBase
        w == IF argc # 0 THEN CopyUp(v, to, v.argp, argc) ELSE v
    IN  [w EXCEPT !.argp = to, !.sp = to + argc, !.env = NULL]


----------------------------------------------------------------------------
(* Stack management: promotion of frames to the heap. *)

(* A round of save_env that leaves the size of the original frame. *)
save_env_frame_no_mark(v, e, prev, saved) ==
    LET v1 == Alloc(v, [ up |-> EGet(v, e, "up"),
                         info |-> EGet(v, e, "info"),
                         size |-> EGet(v, e, "size"),
                         data |-> RdSeq(v, e - EGet(v, e, "size"), EGet(v, e, "size")) ])
    IN  ESet(ESet(IF prev # NULL THEN ESet(v1, prev, "up", saved) ELSE v1,
                  e, "up", saved),
             e, "info", SCM_FALSE)

(* One round of the do-while loop of save_env: the frame E is copied to  *)
(* the new heap frame SAVED and becomes a forwarding frame.              *)
save_env_frame(v, e, prev, saved) ==
    LET v1 == Alloc(v, [ up |-> EGet(v, e, "up"),
                         info |-> EGet(v, e, "info"),
                         size |-> EGet(v, e, "size"),
                         data |-> RdSeq(v, e - EGet(v, e, "size"), EGet(v, e, "size")) ])
    IN  ESet(ESet(ESet(IF prev # NULL THEN ESet(v1, prev, "up", saved) ELSE v1,
                       e, "up", saved),
                  e, "size", -1),
             e, "info", SCM_FALSE)

(* The do-while loop of save_env.  Returns the VM and `head'. *)
RECURSIVE save_env_loop(_, _, _, _)
save_env_while(v, next, saved, head) ==
    IF IN_STACK_P(v, next) THEN save_env_loop(v, next, saved, head)
    ELSE [ v |-> v, r |-> head ]

save_env_loop(v, e, prev, head) ==
    IF EGet(v, e, "size") < 0 THEN
        [ v |-> IF prev # NULL THEN ESet(v, prev, "up", FORWARDED_ENV(v, e)) ELSE v,
          r |-> head ]
    ELSE
        save_env_while(save_env_frame(v, e, prev, NewPtr(v)), EGet(v, e, "up"),
                       NewPtr(v), IF head = NULL THEN NewPtr(v) ELSE head)

save_env(v, env_begin) ==
    IF ~IN_STACK_P(v, env_begin) THEN [ v |-> v, r |-> env_begin ]
    ELSE save_env_loop(v, env_begin, NULL, NULL)

(* c->env = save_env(vm, c->env), given what save_env returned. *)
save_cont_set_env(se, c) == CSet(se.v, c, "env", se.r)

(* First pass of save_cont, one frame: update env ptr if necessary. *)
save_cont_env(v, c) ==
    LET cenv == CGet(v, c, "env") IN
    IF FORWARDED_ENV_P(v, cenv) THEN CSet(v, c, "env", FORWARDED_ENV(v, cenv))
    ELSE IF IN_STACK_P(v, cenv) THEN save_cont_set_env(save_env(v, cenv), c)
    ELSE v

(* First pass of save_cont, one frame: copy cont frame to CSAVE, and link *)
(* the copy of the frame above to it.                                     *)
save_cont_copy(v, c, prev, csave) ==
    LET v1 == [v EXCEPT !.heap[-csave] =
                        [ prev |-> CGet(v, c, "prev"),
                          env |-> CGet(v, c, "env"),
                          argp |-> IF CGet(v, c, "argp") # NULL THEN csave ELSE NULL,
                          size |-> CGet(v, c, "size"),
                          pc |-> CGet(v, c, "pc"),
                          base |-> CGet(v, c, "base"),
                          data |-> ContData(v, c) ]]
    IN  IF prev # NULL THEN CSet(v1, prev, "prev", csave) ELSE v1

(* First pass of save_cont: the do-while loop over the in-stack frames. *)
RECURSIVE save_cont_pass1(_, _, _)
save_cont_forward(v, c, csave) ==
    LET tmp == CGet(v, c, "prev")
        v1 == CSet(CSet(v, c, "prev", csave), c, "size", -1)   \* forwarded
    IN  IF IN_STACK_P(v1, tmp) THEN save_cont_pass1(v1, tmp, csave) ELSE v1

save_cont_pass1(v, c, prev) ==
    save_cont_forward(
        save_cont_copy(save_cont_env(Alloc(v, [ size |-> 0 ]), c),   \* SCM_NEW2
                       c, prev, NewPtr(v)),
        c, NewPtr(v))

(* SCM_VM_FLOATING_EP: the floating chain hangs off the innermost escape  *)
(* point, or off the VM when there is none.                               *)
SCM_VM_FLOATING_EP(v) ==
    IF v.escapePoint # NULL THEN v.eps[v.escapePoint].floating
    ELSE v.escapePointFloating

SCM_VM_FLOATING_EP_SET(v, ep) ==
    IF v.escapePoint # NULL THEN [v EXCEPT !.eps[v.escapePoint].floating = ep]
    ELSE [v EXCEPT !.escapePointFloating = ep]

RECURSIVE redirect_cstack(_, _)
redirect_cstack(v, cs) ==
    IF cs = NULL THEN v
    ELSE LET c == v.cstk[cs].cont
             v1 == IF FORWARDED_CONT_P(v, c)
                   THEN [v EXCEPT !.cstk[cs].cont = FORWARDED_CONT(v, c)] ELSE v
         IN  redirect_cstack(v1, v.cstk[cs].prev)

RECURSIVE redirect_eps(_, _, _)
redirect_eps(v, ep, link) ==
    IF ep = NULL THEN v
    ELSE LET c == v.eps[ep].cont
             v1 == IF FORWARDED_CONT_P(v, c)
                   THEN [v EXCEPT !.eps[ep].cont = FORWARDED_CONT(v, c)] ELSE v
         IN  redirect_eps(v1, v.eps[ep][link], link)

(* Second pass of save_cont: vm->cont and the host-stack records. *)
save_cont_pass2_cstack(v) ==
    redirect_cstack(IF FORWARDED_CONT_P(v, v.cont)
                    THEN [v EXCEPT !.cont = FORWARDED_CONT(v, v.cont)] ELSE v,
                    v.cstack)

(* Second pass of save_cont: the chain of escape points. *)
save_cont_pass2_eps(v) == redirect_eps(v, v.escapePoint, "prev")

(* The second pass without the walk of the floating chain. *)
save_cont_pass2_no_floating(v) == save_cont_pass2_eps(save_cont_pass2_cstack(v))

(* Second pass of save_cont: the floating escape points. *)
save_cont_pass2_floating(v) == redirect_eps(v, SCM_VM_FLOATING_EP(v), "floating")

save_cont_pass2(v) ==
    save_cont_pass2_floating(save_cont_pass2_eps(save_cont_pass2_cstack(v)))

(* The two passes of save_cont over the continuation frames. *)
save_cont_frames(v) ==
    IF ~IN_STACK_P(v, v.cont) THEN v
    ELSE save_cont_pass2(save_cont_pass1(v, v.cont, NULL))

(* save_cont that leaves the chain of vm->env where it is. *)
save_cont_keeps_env(v) == save_cont_frames(v)

(* vm->env = save_env(vm, vm->env), given what save_env returned. *)
save_cont_set_vm_env(se) == [se.v EXCEPT !.env = se.r]

save_cont(v) == save_cont_frames(save_cont_set_vm_env(save_env(v, v.env)))

(* save_stack without the clearing of the stack above SP. *)
save_stack_move_no_clear(v) ==
    [WrSeq(v, v.stackBase, RdSeq(v, v.argp, v.sp - v.argp)) EXCEPT
        !.sp = v.sp - (v.argp - v.stackBase),
        !.argp = v.stackBase]

(* The memmove of save_stack and the clearing of the stack above SP. *)
save_stack_move(v) ==
    LET sp1 == v.sp - (v.argp - v.stackBase)
        v1 == WrSeq(v, v.stackBase, RdSeq(v, v.argp, v.sp - v.argp))    \* memmove
    IN  [v1 EXCEPT !.sp = sp1,
                   !.argp = v.stackBase,
                   !.stack = Words([a \in DOMAIN v1.stack |->
                                       IF a >= sp1 THEN NULL ELSE v1.stack[a]])]

save_stack(v) == save_stack_move(save_cont(v))

RECURSIVE get_env_fix(_, _)
get_env_fix(v, c) ==
    IF ~IN_STACK_P(v, c) THEN v
    ELSE LET cenv == CGet(v, c, "env")
             v1 == IF FORWARDED_ENV_P(v, cenv)
                   THEN CSet(v, c, "env", FORWARDED_ENV(v, cenv)) ELSE v
         IN  get_env_fix(v1, CGet(v, c, "prev"))

(* get_env after its call of save_env, which returned SE. *)
get_env_saved(se, env) ==
    IF se.r # env
    THEN [ v |-> get_env_fix([se.v EXCEPT !.env = se.r], se.v.cont), r |-> se.r ]
    ELSE se

get_env(v) == get_env_saved(save_env(v, v.env), v.env)

CHECK_STACK(v, size) ==
    IF v.sp >= v.stackEnd - size THEN Call("save_stack", v, <<>>) ELSE v

(* The build with PARANOIA defined, where every instruction that pushes   *)
(* checks the stack itself.                                               *)
CHECK_STACK_PARANOIA(v, n) == CHECK_STACK(v, n)


----------------------------------------------------------------------------
(* Entry points used by native code. *)

(* Static code vectors: the address of apply_calls[n]. *)
apply_calls(n) == 9020 + n

(* Scm_VMApply0 .. Scm_VMApply4: CHECK_STACK(n), n pushes, PC =           *)
(* apply_calls[n]; the procedure is returned, and so becomes VAL0.        *)
Scm_VMApplyN(v, proc, args) ==
    [PushArgs(IF args = <<>> THEN v ELSE CHECK_STACK(v, Len(args)), args)
        EXCEPT !.pc = apply_calls(Len(args)), !.val0 = proc]

(* Scm_VMPushCC after its CHECK_STACK: the frame of the C continuation. *)
push_cc_frame(v, after, data) ==
    LET w == WrSeq(v, v.sp, << v.cont, v.env, NULL, Len(data), after, v.base >> \o data)
    IN  [w EXCEPT !.cont = v.sp,
                  !.sp = v.sp + CONT_FRAME_SIZE + Len(data),
                  !.argp = v.sp + CONT_FRAME_SIZE + Len(data)]

Scm_VMPushCC(v, after, data) ==
    push_cc_frame(CHECK_STACK(v, CONT_FRAME_SIZE + Len(data)), after, data)

(* user_eval_inner: vm->base and vm->pc for the program.  codevec = NULL  *)
(* runs the program's own code, after CHECK_STACK(maxstack).              *)
eval_enter_code(v, program, codevec, maxstack) ==
    IF codevec # NULL THEN [v EXCEPT !.base = program, !.pc = codevec]
    ELSE CHECK_STACK([v EXCEPT !.base = program, !.pc = program], maxstack)

(* for (cs = vm->cstack; cs; cs = cs->prev) if (target == cs) break; *)
RECURSIVE FindCStack(_, _, _)
FindCStack(v, cs, target) ==
    IF cs = NULL THEN NULL
    ELSE IF target = cs THEN cs
    ELSE FindCStack(v, v.cstk[cs].prev, target)

(* The addresses of the records of frames that have returned, below the *)
(* innermost live frame of the host stack.                              *)
DeadCStacks(v) ==
    { a \in DOMAIN v.cstk : a > v.cstack /\ FindCStack(v, v.cstack, a) = NULL }

(* ScmCStack cstack: a local variable of the frame.  Its address is new, *)
(* or the address of the local variable of a frame that has returned.    *)
CStackAddr(v) ==
    IF v.reuse /\ DeadCStacks(v) # {}
    THEN CHOOSE a \in DeadCStacks(v) : \A b \in DeadCStacks(v) : a <= b
    ELSE Len(v.cstk) + 1

(* The record is at the address; `frame' tells the host frame that owns *)
(* it from the earlier owners of the address.                           *)
PushCStack(v, rec) ==
    [v EXCEPT !.cstk = IF CStackAddr(v) > Len(v.cstk) THEN Append(@, rec)
                       ELSE [@ EXCEPT ![CStackAddr(v)] = rec],
              !.cstack = CStackAddr(v),
              !.nframes = @ + 1]

(* The host frame that owns the record at address cs now. *)
FrameOf(v, cs) == IF cs = NULL THEN NULL ELSE v.cstk[cs].frame

(* user_eval_inner: the host-stack record. *)
(* What user_eval_inner finds at its entry and at its return: the       *)
(* registers and the memory they point into.                            *)
Frozen(v) ==
    [ stack |-> v.stack, heap |-> v.heap, stackBase |-> v.stackBase,
      stackEnd |-> v.stackEnd, cont |-> v.cont, argp |-> v.argp, sp |-> v.sp,
      pc |-> v.pc, cstack |-> v.cstack ]

(* The record keeps, besides the fields of ScmCStack, the VM `was' that *)
(* user_eval_inner was entered with and the number of restarts so far.  *)
eval_enter_cstack(v, prev_pc, caller, was) ==
    PushCStack(v, [ prev |-> v.cstack, cont |-> v.cont,
                    prev_pc |-> prev_pc, caller |-> caller,
                    frame |-> v.nframes + 1,
                    entry |-> Frozen(was), restarts |-> 0 ])

(* user_eval_inner up to the call of run_loop: the boundary frame and the *)
(* host-stack record.                                                     *)
eval_enter(v, program, codevec, maxstack, caller) ==
    eval_enter_cstack(
        eval_enter_code(PUSH_CONT(CHECK_STACK(v, CONT_FRAME_SIZE), boundaryFrameMark),
                        program, codevec, maxstack),
        v.pc, caller, v)

(* Scm_VMUnwindProtect: a host-stack record without a continuation. *)
Scm_VMUnwindProtect(v, caller) ==
    PushCStack(v, [ prev |-> v.cstack, cont |-> NULL,
                    prev_pc |-> NULL, caller |-> caller,
                    frame |-> v.nframes + 1 ])

Scm_VMRewindProtect(v) == [v EXCEPT !.cstack = v.cstk[v.cstack].prev]

(* SCM_NEW(ScmEscapePoint): the allocator returns zeroed memory. *)
(* `frame' is not a field of ScmEscapePoint: it is the host frame that  *)
(* owned the record when ep->cstack was set.                            *)
NewEscapePoint ==
    [ prev |-> NULL, floating |-> NULL, ehandler |-> NULL, xhandler |-> NULL,
      handlers |-> NULL, cstack |-> NULL, cont |-> NULL, rewindBefore |-> FALSE,
      frame |-> NULL ]

----------------------------------------------------------------------------
(* Scheme objects in the heap: pairs, subrs, arrays. *)

SCM_PAIRP(v, p) == HEAP_P(p) /\ "car" \in DOMAIN v.heap[-p]
SCM_CAR(v, p) == v.heap[-p].car
SCM_CDR(v, p) == v.heap[-p].cdr

(* Scm_Cons: a fresh pair.  The result is the VM and the pair. *)
Scm_Cons(v, a, d) == [ v |-> Alloc(v, [ car |-> a, cdr |-> d ]), r |-> NewPtr(v) ]

RECURSIVE Scm_Length(_, _)
Scm_Length(v, l) == IF SCM_PAIRP(v, l) THEN 1 + Scm_Length(v, SCM_CDR(v, l)) ELSE 0

(* Scm_Memq: the first tail of l whose car is obj, or SCM_FALSE. *)
RECURSIVE Scm_Memq(_, _, _)
Scm_Memq(v, obj, l) ==
    IF ~SCM_PAIRP(v, l) THEN SCM_FALSE
    ELSE IF SCM_CAR(v, l) = obj THEN l
    ELSE Scm_Memq(v, obj, SCM_CDR(v, l))

(* Scm_Reverse: a fresh list. *)
RECURSIVE Scm_Reverse2(_, _, _)
Scm_Reverse2(v, l, acc) ==
    IF ~SCM_PAIRP(v, l) THEN [ v |-> v, r |-> acc ]
    ELSE LET c == Scm_Cons(v, SCM_CAR(v, l), acc)
         IN  Scm_Reverse2(c.v, SCM_CDR(v, l), c.r)

Scm_Reverse(v, l) == Scm_Reverse2(v, l, SCM_NIL)

(* A list of the words ws, built from the last one: SCM_LIST1 and alike. *)
RECURSIVE Scm_List(_, _)
Scm_List(v, ws) ==
    IF ws = <<>> THEN [ v |-> v, r |-> SCM_NIL ]
    ELSE LET t == Scm_List(v, Tail(ws))
         IN  Scm_Cons(t.v, Head(ws), t.r)

(* The elements of a list, as a sequence. *)
RECURSIVE ListElems(_, _)
ListElems(v, l) ==
    IF ~SCM_PAIRP(v, l) THEN <<>>
    ELSE <<SCM_CAR(v, l)>> \o ListElems(v, SCM_CDR(v, l))

(* SCM_APPEND1(h, t, obj): append obj to the list h in place. *)
RECURSIVE LastPair(_, _)
LastPair(v, l) == IF SCM_PAIRP(v, SCM_CDR(v, l)) THEN LastPair(v, SCM_CDR(v, l)) ELSE l

SCM_APPEND1(v, h, obj) ==
    LET c == Scm_Cons(v, obj, SCM_NIL)
    IN  IF h = SCM_NIL THEN c
        ELSE [ v |-> [c.v EXCEPT !.heap[-LastPair(v, h)].cdr = c.r], r |-> h ]

(* Scm_MakeSubr(func, data, ...): a native procedure object. *)
Scm_MakeSubr(v, func, data) ==
    [ v |-> Alloc(v, [ subr |-> func, data |-> data ]), r |-> NewPtr(v) ]

SCM_UNBOUNDP(x) == x = SCM_UNBOUND

SCM_SUBRP(v, p) == HEAP_P(p) /\ "subr" \in DOMAIN v.heap[-p]

(* SCM_NEW_ARRAY filled by memcpy *)
NewArray(v, ws) == [ v |-> Alloc(v, [ array |-> ws ]), r |-> NewPtr(v) ]


----------------------------------------------------------------------------
(* Control flow.  The field `next' of the VM says what runs next:         *)
(*   "host"    the host program, outside the interpreter;                 *)
(*   "scheme"  the code of a Scheme or native procedure: an instruction   *)
(*             of the specifications below;                               *)
(*   "loop"    run_loop fetches the instruction at PC;                    *)
(*   "reinstated"  a continuation procedure has returned to run_loop,     *)
(*             which fetches the RET that follows its call;               *)
(*   the name of a native function with its arguments or its frame, when  *)
(*   one function calls, returns to or jumps into another.                *)
(* A native function is an operator from the VM to the VM.  It is entered *)
(* with `next' set to "loop": one that returns to the interpreter loop    *)
(* leaves it so and sets VAL0 to its value; one that calls or jumps to    *)
(* another function says so in `next'.  The operator Go runs the          *)
(* functions named by `next' up to the next instruction of Scheme or host *)
(* code.                                                                  *)

Goto(v, op, fr) == [v EXCEPT !.next = [op |-> op, fr |-> fr]]
ToLoop(v) == [v EXCEPT !.next = [op |-> "loop"]]
ToScheme(v) == [v EXCEPT !.next = [op |-> "scheme"]]
ToHost(v) == [v EXCEPT !.next = [op |-> "host"]]

(* Addresses of the static C continuation procedures. *)
dynwind_before_cc_addr == 9011
dynwind_body_cc_addr == 9012
dynwind_after_cc_addr == 9013
throw_cont_cc_addr == 9014
process_queued_requests_cc_addr == 9015
(* apply_rec's code vector << VALUES_APPLY nargs, RET >> *)
apply_rec_code(nargs) == 9030 + nargs
(* the condition object of an error, and one of a continuable condition *)
ErrorCondition == 9040
WarningCondition == 9041

SCM_SERIOUS_CONDITION_P(e) == e = ErrorCondition

(* Scm_ApplyRec(proc, args) from the native frame `caller': the values    *)
(* are stored, the interpreter is entered and run_loop starts.            *)
Scm_ApplyRec(v, proc, args, caller) ==
    LET nargs == Len(args)
        v1 == [v EXCEPT !.vals = [i \in DOMAIN v.vals |->
                                     IF i <= nargs THEN args[i] ELSE v.vals[i]],
                        !.val0 = proc]
        program == IF v.base # NULL THEN v.base ELSE SCM_FALSE
    IN  ToLoop(eval_enter(v1, program, apply_rec_code(nargs), 0, caller))

(* Scm_Error raises a serious condition: Scm_VMThrowException. *)
Scm_Error(v) == Goto(v, "Scm_VMThrowException", ErrorCondition)

(* for (; ep; ep = ep->prev) if (ep->xhandler != DEFAULT_EXCEPTION_HANDLER) *)
RECURSIVE xhandler_in_chain(_, _)
xhandler_in_chain(v, ep) ==
    IF ep = NULL THEN NULL
    ELSE IF v.eps[ep].xhandler # DEFAULT_EXCEPTION_HANDLER THEN v.eps[ep].xhandler
    ELSE xhandler_in_chain(v, v.eps[ep].prev)

(* Scm_VMThrowException: the handler that is applied to the condition,   *)
(* from the native frame that goes on when it returns.                   *)
throw_exception(v, exception) ==
    IF v.exceptionHandler # DEFAULT_EXCEPTION_HANDLER
    THEN Goto(v, "Scm_ApplyRec",
              [ proc |-> v.exceptionHandler, args |-> << exception >>,
                caller |-> [ fn |-> "xhandler", e |-> exception ] ])
    ELSE IF /\ ~SCM_SERIOUS_CONDITION_P(exception)
            /\ xhandler_in_chain(v, v.escapePoint) # NULL
    THEN Goto(v, "Scm_ApplyRec",
              [ proc |-> xhandler_in_chain(v, v.escapePoint), args |-> << exception >>,
                caller |-> [ fn |-> "native" ] ])
    ELSE Goto(v, "Scm_VMDefaultExceptionHandler", exception)

Scm_VMValues(v, args) ==
    LET n == Len(args) IN
    IF n = 0 THEN [v EXCEPT !.numVals = 0, !.val0 = SCM_UNDEFINED]
    ELSE IF n - 1 >= SCM_VM_MAX_VALUES
    THEN Scm_Error([v EXCEPT !.vals = [i \in DOMAIN v.vals |-> args[i + 1]]])
    ELSE [v EXCEPT !.vals = [i \in DOMAIN v.vals |->
                                IF i <= n - 1 THEN args[i + 1] ELSE v.vals[i]],
                   !.numVals = n,
                   !.val0 = args[1]]

Scm_VMGetNumResults(v) == v.numVals

(* for (i=1; i<vm->numVals; i++) SCM_APPEND1(head, tail, vm->vals[i-1]); *)
RECURSIVE get_result_loop(_, _, _)
get_result_loop(v, head, i) ==
    IF i >= v.numVals THEN [ v |-> v, r |-> head ]
    ELSE LET a == SCM_APPEND1(v, head, v.vals[i])
         IN  get_result_loop(a.v, a.r, i + 1)

(* Scm_VMGetResult that takes all its values from vals. *)
Scm_VMGetResult_from_vals(v) ==
    IF v.numVals = 0 THEN [ v |-> v, r |-> SCM_NIL ]
    ELSE get_result_loop(v, SCM_NIL, 1)

(* Scm_VMGetResult: the VM and the list of the values. *)
Scm_VMGetResult(v) ==
    IF v.numVals = 0 THEN [ v |-> v, r |-> SCM_NIL ]
    ELSE LET a == SCM_APPEND1(v, SCM_NIL, v.val0)
         IN  get_result_loop(a.v, a.r, 1)

Scm_VMSetResult(v, obj) == [v EXCEPT !.val0 = obj, !.numVals = 1]

Scm_VMDynamicWind(v, before, body, after) ==
    Scm_VMApplyN(Scm_VMPushCC(v, dynwind_before_cc_addr, << before, body, after >>),
                 before, <<>>)

dynwind_before_cc(v, result, data) ==
    LET before == data[1]
        body == data[2]
        after == data[3]
        prev == v.handlers
        c1 == Scm_Cons(v, before, after)
        c2 == Scm_Cons(c1.v, c1.r, prev)
        v1 == [c2.v EXCEPT !.handlers = c2.r]
    IN  Scm_VMApplyN(Scm_VMPushCC(v1, dynwind_body_cc_addr, << after, prev >>),
                     body, <<>>)

(* dynwind_body_cc without the restoration of the handler list. *)
dynwind_body_cc_keeps_handlers(v, result, data) ==
    LET after == data[1]
        a == IF v.numVals > 1
             THEN NewArray(v, [i \in 1..(v.numVals - 1) |-> v.vals[i]])
             ELSE [ v |-> v, r |-> Indeterminate ]
    IN  Scm_VMApplyN(Scm_VMPushCC(a.v, dynwind_after_cc_addr,
                                  << result, v.numVals, a.r >>),
                     after, <<>>)

dynwind_body_cc(v, result, data) ==
    LET after == data[1]
        prev == data[2]
        v1 == [v EXCEPT !.handlers = prev]
        a == IF v.numVals > 1
             THEN NewArray(v1, [i \in 1..(v.numVals - 1) |-> v.vals[i]])
             ELSE [ v |-> v1, r |-> Indeterminate ]
    IN  Scm_VMApplyN(Scm_VMPushCC(a.v, dynwind_after_cc_addr,
                                  << result, v.numVals, a.r >>),
                     after, <<>>)

(* dynwind_after_cc returning the values of the after-thunk. *)
dynwind_after_cc_no_restore(v, result, data) == [v EXCEPT !.val0 = result]

dynwind_after_cc(v, result, data) ==
    LET val0 == data[1]
        nvals == data[2]
    IN  IF nvals > 1 /\ nvals > SCM_VM_MAX_VALUES THEN [v EXCEPT !.failed = TRUE]
        ELSE [v EXCEPT !.numVals = nvals,
                       !.vals = [i \in DOMAIN v.vals |->
                                    IF nvals > 1 /\ i <= nvals - 1
                                    THEN v.heap[-data[3]].array[i] ELSE v.vals[i]],
                       !.val0 = val0]

install_ehandler(v, ep) ==
    [v EXCEPT !.exceptionHandler = DEFAULT_EXCEPTION_HANDLER,
              !.escapePoint = ep,
              !.val0 = SCM_UNDEFINED]

discard_ehandler(v, ep) ==
    [v EXCEPT !.escapePoint = v.eps[ep].prev,
              !.exceptionHandler = v.eps[ep].xhandler,
              !.val0 = SCM_UNDEFINED]

with_error_handler(v, handler, thunk, rewindBefore) ==
    LET ep == Len(v.eps) + 1
        v1 == [v EXCEPT !.eps = Append(@, [NewEscapePoint EXCEPT
                                  !.prev = v.escapePoint,
                                  !.floating = SCM_VM_FLOATING_EP(v),
                                  !.ehandler = handler,
                                  !.handlers = v.handlers,
                                  !.cstack = v.cstack,
                                  !.frame = FrameOf(v, v.cstack),
                                  !.xhandler = v.exceptionHandler,
                                  !.cont = v.cont,
                                  !.rewindBefore = rewindBefore]),
                        !.escapePoint = ep]
        before == Scm_MakeSubr(v1, "install_ehandler", ep)
        after == Scm_MakeSubr(before.v, "discard_ehandler", ep)
    IN  Scm_VMDynamicWind(after.v, before.r, thunk, after.r)

install_xhandler(v, handler) ==
    [v EXCEPT !.exceptionHandler = handler, !.val0 = SCM_UNDEFINED]

Scm_VMWithExceptionHandler(v, handler, thunk) ==
    LET current == v.exceptionHandler
        before == Scm_MakeSubr(v, "install_xhandler", handler)
        after == Scm_MakeSubr(before.v, "install_xhandler", current)
    IN  Scm_VMDynamicWind(after.v, before.r, thunk, after.r)

(* safe_eval_wrap: epak is a local variable of its frame, which is the  *)
(* frame below that of the user_eval_inner it calls; its address is     *)
(* told by the address of the record of that entry.                     *)
safe_eval_wrap(v, proc, args) ==
    LET epak == [ fn |-> "safe", at |-> CStackAddr(v),
                  from |-> IF v.next.op = "host" THEN "host" ELSE "native",
                  exception |-> SCM_UNBOUND,
                  was |-> [ cstack |-> v.cstack, escapePoint |-> v.escapePoint,
                            ntrace |-> Len(v.trace) ] ]
        int == Scm_MakeSubr(v, "safe_eval_int",
                            [ epak |-> CStackAddr(v), proc |-> proc, args |-> args ])
    IN  Goto(int.v, "Scm_ApplyRec", [ proc |-> int.r, args |-> <<>>, caller |-> epak ])

(* safe_eval_int *)
safe_eval_int(v, data) ==
    LET thunk == Scm_MakeSubr(v, "safe_eval_thunk", data)
        handler == Scm_MakeSubr(thunk.v, "safe_eval_handler", data)
    IN  with_error_handler(handler.v, handler.r, thunk.r, FALSE)

(* safe_eval_thunk of kind SAFE_APPLY: Scm_VMApply(epak->arg0, epak->args) *)
safe_eval_thunk(v, data) ==
    Scm_VMApplyN(CHECK_STACK(v, ENV_SIZE(1) + 1), data.proc, data.args)

(* safe_eval_handler: epak->exception = args[0].  The store is to the   *)
(* frame that has the address now.                                      *)
safe_eval_handler(v, data, args) ==
    IF Len(args) # 1 THEN [v EXCEPT !.failed = TRUE]
    ELSE IF data.epak \in DOMAIN v.cstk /\ v.cstk[data.epak].caller.fn = "safe"
    THEN [v EXCEPT !.cstk[data.epak].caller.exception = args[1],
                   !.val0 = SCM_UNDEFINED]
    ELSE [v EXCEPT !.val0 = SCM_UNDEFINED]

(* Scm_VMCallCC after save_cont: the escape point and the continuation  *)
(* procedure, to which proc is applied.                                  *)
callcc_apply(v, proc, contproc) == Scm_VMApplyN(contproc.v, proc, << contproc.r >>)

(* An escape point that records the empty handler list. *)
callcc_escape_point_no_handlers(v, proc) ==
    callcc_apply(v, proc,
                 Scm_MakeSubr([v EXCEPT !.eps = Append(@, [NewEscapePoint EXCEPT
                                          !.prev = NULL,
                                          !.ehandler = SCM_FALSE,
                                          !.cont = v.cont,
                                          !.handlers = SCM_NIL,
                                          !.cstack = v.cstack,
                                          !.frame = FrameOf(v, v.cstack)])],
                              "throw_continuation", Len(v.eps) + 1))

callcc_escape_point(v, proc) ==
    callcc_apply(v, proc,
                 Scm_MakeSubr([v EXCEPT !.eps = Append(@, [NewEscapePoint EXCEPT
                                          !.prev = NULL,
                                          !.ehandler = SCM_FALSE,
                                          !.cont = v.cont,
                                          !.handlers = v.handlers,
                                          !.cstack = v.cstack,
                                          !.frame = FrameOf(v, v.cstack)])],
                              "throw_continuation", Len(v.eps) + 1))

Scm_VMCallCC(v, proc) == callcc_escape_point(Call("save_cont", v, <<>>), proc)

(* Scm_VMCallPC: "find the latest boundary frame".  The result is c and cp *)
(* when the loop ends.                                                    *)
RECURSIVE callpc_boundary(_, _, _)
callpc_boundary(v, c, cp) ==
    IF c # NULL /\ ~BOUNDARY_FRAME_P(v, c)
    THEN callpc_boundary(v, CGet(v, c, "prev"), c)
    ELSE [ c |-> c, cp |-> cp ]

(* if (cp != NULL) cp->prev = NULL;  "cut the dynamic chain" *)
callpc_cut(v, cp) == IF cp # NULL THEN CSet(v, cp, "prev", NULL) ELSE v

(* The escape point of a partial continuation and its procedure. *)
callpc_escape_point(v) ==
    Scm_MakeSubr([v EXCEPT !.eps = Append(@, [NewEscapePoint EXCEPT
                             !.prev = NULL,
                             !.ehandler = SCM_FALSE,
                             !.cont = v.cont,
                             !.handlers = v.handlers,
                             !.cstack = NULL])],
                 "throw_continuation", Len(v.eps) + 1)

(* Scm_VMCallPC after save_cont, given the boundary frame found. *)
callpc_apply(v, proc, b) ==
    LET contproc == callpc_escape_point(callpc_cut(v, b.cp))
    IN  Scm_VMApplyN([contproc.v EXCEPT !.cont = b.c], proc, << contproc.r >>)

callpc_saved(v, proc) == callpc_apply(v, proc, callpc_boundary(v, v.cont, NULL))

Scm_VMCallPC(v, proc) == callpc_saved(Call("save_cont", v, <<>>), proc)


(* The first loop of throw_cont_calculate_handlers: the `after' handlers. *)
(* calc_after without the test of membership in the target list. *)
RECURSIVE calc_after_all(_, _, _, _)
calc_after_all(v, p, target, h) ==
    IF ~SCM_PAIRP(v, p) THEN [ v |-> v, r |-> h ]
    ELSE IF ~SCM_PAIRP(v, SCM_CAR(v, p)) THEN [ v |-> [v EXCEPT !.failed = TRUE], r |-> h ]
    ELSE LET c == Scm_Cons(v, SCM_CDR(v, SCM_CAR(v, p)), SCM_CDR(v, p))
             a == SCM_APPEND1(c.v, h, c.r)
         IN  calc_after_all(a.v, SCM_CDR(v, p), target, a.r)

RECURSIVE calc_after(_, _, _, _)
calc_after(v, p, target, h) ==
    IF ~SCM_PAIRP(v, p) THEN [ v |-> v, r |-> h ]
    ELSE IF ~SCM_PAIRP(v, SCM_CAR(v, p)) THEN [ v |-> [v EXCEPT !.failed = TRUE], r |-> h ]
    ELSE IF Scm_Memq(v, SCM_CAR(v, p), target) # SCM_FALSE THEN [ v |-> v, r |-> h ]
    ELSE LET c == Scm_Cons(v, SCM_CDR(v, SCM_CAR(v, p)), SCM_CDR(v, p))
             a == SCM_APPEND1(c.v, h, c.r)
         IN  calc_after(a.v, SCM_CDR(v, p), target, a.r)

(* The second loop with the chain that starts at the entry itself. *)
RECURSIVE calc_before_with_own(_, _, _, _, _)
calc_before_with_own(v, p, current, ephandlers, h) ==
    IF ~SCM_PAIRP(v, p) THEN [ v |-> v, r |-> h ]
    ELSE IF ~SCM_PAIRP(v, SCM_CAR(v, p)) THEN [ v |-> [v EXCEPT !.failed = TRUE], r |-> h ]
    ELSE IF Scm_Memq(v, SCM_CAR(v, p), current) # SCM_FALSE
    THEN calc_before_with_own(v, SCM_CDR(v, p), current, ephandlers, h)
    ELSE LET chain == Scm_Memq(v, SCM_CAR(v, p), ephandlers)
             c == Scm_Cons(v, SCM_CAR(v, SCM_CAR(v, p)), chain)
             a == SCM_APPEND1(c.v, h, c.r)
         IN  IF ~SCM_PAIRP(v, chain) THEN [ v |-> [v EXCEPT !.failed = TRUE], r |-> h ]
             ELSE calc_before_with_own(a.v, SCM_CDR(v, p), current, ephandlers, a.r)

(* The second loop: the `before' handlers. *)
RECURSIVE calc_before(_, _, _, _, _)
calc_before(v, p, current, ephandlers, h) ==
    IF ~SCM_PAIRP(v, p) THEN [ v |-> v, r |-> h ]
    ELSE IF ~SCM_PAIRP(v, SCM_CAR(v, p)) THEN [ v |-> [v EXCEPT !.failed = TRUE], r |-> h ]
    ELSE IF Scm_Memq(v, SCM_CAR(v, p), current) # SCM_FALSE
    THEN calc_before(v, SCM_CDR(v, p), current, ephandlers, h)
    ELSE LET chain == Scm_Memq(v, SCM_CAR(v, p), ephandlers)
             c == Scm_Cons(v, SCM_CAR(v, SCM_CAR(v, p)), SCM_CDR(v, chain))
             a == SCM_APPEND1(c.v, h, c.r)
         IN  IF ~SCM_PAIRP(v, chain) THEN [ v |-> [v EXCEPT !.failed = TRUE], r |-> h ]
             ELSE calc_before(a.v, SCM_CDR(v, p), current, ephandlers, a.r)

throw_cont_calculate_handlers(v, ep) ==
    LET target == Scm_Reverse(v, v.eps[ep].handlers)
        current == v.handlers
        a == calc_after(target.v, current, target.r, SCM_NIL)
    IN  calc_before(a.v, target.r, current, v.eps[ep].handlers, a.r)

(* throw_cont_body with no handler left: the values of the continuation. *)
(* Where it returns, to the RET that follows the call of the continuation *)
(* procedure, `next' is "reinstated" and keeps ep and args.               *)
throw_cont_values(v, ep, args) ==
    LET nargs == Scm_Length(v, args)
        rest == ListElems(v, SCM_CDR(v, args))
        fr == [ ep |-> ep, args |-> args ]
    IN  IF nargs = 1 THEN Goto([v EXCEPT !.val0 = SCM_CAR(v, args)], "reinstated", fr)
        ELSE IF nargs < 1 THEN Goto([v EXCEPT !.val0 = SCM_UNDEFINED], "reinstated", fr)
        ELSE IF nargs >= SCM_VM_MAX_VALUES THEN Scm_Error(v)
        ELSE Goto([v EXCEPT !.vals = [i \in DOMAIN v.vals |->
                                         IF i <= Len(rest) THEN rest[i] ELSE v.vals[i]],
                            !.numVals = nargs,
                            !.val0 = SCM_CAR(v, args)],
                  "reinstated", fr)

(* throw_cont_body with no handler left: the continuation is installed. *)
throw_cont_install(v, ep, args) ==
    throw_cont_values([v EXCEPT !.pc = PC_TO_RETURN,
                                !.cont = v.eps[ep].cont,
                                !.handlers = v.eps[ep].handlers],
                      ep, args)

throw_cont_body(v, handlers, ep, args) ==
    IF SCM_PAIRP(v, handlers) THEN
        IF ~SCM_PAIRP(v, SCM_CAR(v, handlers)) THEN [v EXCEPT !.failed = TRUE]
        ELSE
        Scm_VMApplyN([Scm_VMPushCC(v, throw_cont_cc_addr,
                                   << SCM_CDR(v, handlers), ep, args >>)
                         EXCEPT !.handlers = SCM_CDR(v, SCM_CAR(v, handlers))],
                     SCM_CAR(v, SCM_CAR(v, handlers)), <<>>)
    ELSE
        throw_cont_install(IF v.eps[ep].cstack = NULL THEN Call("save_cont", v, <<>>)
                           ELSE v,
                           ep, args)

throw_cont_cc(v, result, data) ==
    Goto(v, "throw_cont_body", [ handlers |-> data[1], ep |-> data[2], args |-> data[3] ])

(* What the native code did at the host-stack record `at', and the      *)
(* registers it left, is added to the events of the instruction.        *)
Log(v, did, at) ==
    [v EXCEPT !.events = Append(@, [ did |-> did, at |-> at,
                                     cstack |-> v.cstack, cont |-> v.cont,
                                     handlers |-> v.handlers,
                                     escapePoint |-> v.escapePoint,
                                     exceptionHandler |-> v.exceptionHandler,
                                     floating |-> SCM_VM_FLOATING_EP(v),
                                     ep |-> v.escapeData[1],
                                     frame |-> IF at = NULL THEN NULL
                                               ELSE v.cstk[at].frame,
                                     ntrace |-> Len(v.trace) ])]

(* exit(status), called by the native code running at the record `at'. *)
exit(v, status, at) ==
    Log([v EXCEPT !.exited = TRUE, !.exitStatus = status], "exit", at)

(* The addresses of the records from cs up to the record at target,      *)
(* which is not included.                                                *)
RECURSIVE CStackPath(_, _, _)
CStackPath(v, cs, target) ==
    IF cs = NULL \/ cs = target THEN <<>>
    ELSE << cs >> \o CStackPath(v, v.cstk[cs].prev, target)

IsRunLoopEntry(v, cs) == v.cstk[cs].caller.fn \notin {"dh_protect", "PORT_SAFE_CALL"}

(* What the entry of the run loop that owns the record at cs does when   *)
(* it passes a long jump on: its boundary frame and its record are       *)
(* popped.                                                               *)
RelayAt(v, cs) ==
    [ did |-> "relay", at |-> cs, cstack |-> v.cstk[cs].prev,
      cont |-> CGet(v, v.cstk[cs].cont, "prev") ]

Relays(v, target) ==
    LET path == SelectSeq(CStackPath(v, v.cstack, target),
                          LAMBDA cs : IsRunLoopEntry(v, cs))
    IN  [j \in DOMAIN path |-> RelayAt(v, path[j])]

(* Scm_VMThrowException, the entry point of throwing an exception. *)
Scm_VMThrowException(v, exception) ==
    throw_exception(Log(v, "raise", v.cstack), exception)

(* The long jump of throw_continuation, and what the entries on its way *)
(* have to do.                                                          *)
LogJump(v, ep) ==
    [v EXCEPT !.events = Append(@, [ did |-> "jump", at |-> v.cstack,
                                     cstack |-> v.cstack, cont |-> v.cont,
                                     relays |-> Relays(v, v.eps[ep].cstack) ])]

(* Body of the continuation subr: argframe[0] is the list of arguments. *)
throw_continuation(v, args, ep) ==
    IF /\ v.eps[ep].cstack # NULL
       /\ v.cstack # v.eps[ep].cstack
       /\ FindCStack(v, v.cstack, v.eps[ep].cstack) # NULL
    THEN Goto(LogJump([v EXCEPT !.escapeReason = "CONT", !.escapeData = << ep, args >>],
                      ep),
              "longjmp", NULL)
    ELSE LET h == Call("throw_cont_calculate_handlers", v, ep)
         IN  Goto(Log(h.v, "direct", v.cstack),
                  "throw_cont_body", [ handlers |-> h.r, ep |-> ep, args |-> args ])


----------------------------------------------------------------------------
(* The default exception handler.  Its native frame (ep, e, the loop      *)
(* variable hp, and the saved results of the error handler) is a record.  *)

DhFrame(fn, ep, e, hp) ==
    [ fn |-> fn, ep |-> ep, e |-> e, hp |-> hp,
      result |-> SCM_FALSE, numVals |-> 0,
      rvals |-> [i \in 1..SCM_VM_MAX_VALUES |-> Indeterminate] ]

(* if (vm->cstack) { ...; siglongjmp(vm->cstack->jbuf, 1); } else exit(EX_SOFTWARE); *)
dh_escape(v, ep, e) ==
    IF v.cstack # NULL
    THEN Goto(Log([v EXCEPT !.escapeReason = "ERROR", !.escapeData = << ep, e >>],
                  "escape", v.cstack),
              "longjmp", NULL)
    ELSE exit(v, EX_SOFTWARE, NULL)

(* SCM_END_PROTECT, then "Install the continuation". *)
dh_install(v, fr) ==
    LET v1 == Scm_VMRewindProtect(v)
        v2 == [v1 EXCEPT !.vals = [i \in DOMAIN v1.vals |->
                                      IF i <= fr.numVals THEN fr.rvals[i] ELSE v1.vals[i]],
                         !.numVals = fr.numVals,
                         !.val0 = fr.result,
                         !.cont = v1.eps[fr.ep].cont]
    IN  dh_escape(Log(SCM_VM_FLOATING_EP_SET(v2, v2.eps[fr.ep].floating),
                      "installed", v.cstack),
                  fr.ep, fr.e)

(* The error handler called with its escape point on neither chain. *)
dh_call_handler_not_floating(v, fr) ==
    LET ep == fr.ep
        e == fr.e
        v1 == [v EXCEPT !.escapePoint = v.eps[ep].prev]
        v2 == Scm_VMUnwindProtect(v1, DhFrame("dh_protect", ep, e, SCM_NIL))
    IN  Goto(v2, "Scm_ApplyRec",
             [ proc |-> v2.eps[ep].ehandler, args |-> << e >>,
               caller |-> DhFrame("dh_handler", ep, e, SCM_NIL) ])

(* Pop the escape point, keep it on the floating chain, and call the      *)
(* error handler under SCM_UNWIND_PROTECT.                                *)
dh_call_handler(v, fr) ==
    LET ep == fr.ep
        e == fr.e
        v1 == SCM_VM_FLOATING_EP_SET([v EXCEPT !.escapePoint = v.eps[ep].prev], ep)
        v2 == Scm_VMUnwindProtect(v1, DhFrame("dh_protect", ep, e, SCM_NIL))
    IN  Goto(v2, "Scm_ApplyRec",
             [ proc |-> v2.eps[ep].ehandler, args |-> << e >>,
               caller |-> DhFrame("dh_handler", ep, e, SCM_NIL) ])

(* The three loops that call the after-thunks: "dh_before" (rewindBefore), *)
(* "dh_after" (after the error handler) and "dh_all" (no escape point).   *)
(* The rewinding loops without the calls of the after-thunks. *)
dh_rewind_no_thunks(v, fr) ==
    IF fr.fn = "dh_before" THEN Goto(v, "dh_call_handler", fr)
    ELSE IF fr.fn = "dh_after" THEN Goto(v, "dh_install", fr)
    ELSE dh_escape(v, NULL, fr.e)

(* The rewinding loops that do not stop at the list of the escape point. *)
dh_rewind_past_target(v, fr) ==
    IF /\ SCM_PAIRP(v, fr.hp)
    THEN Goto([v EXCEPT !.handlers = SCM_CDR(v, fr.hp)], "Scm_ApplyRec",
              [ proc |-> SCM_CDR(v, SCM_CAR(v, fr.hp)), args |-> <<>>, caller |-> fr ])
    ELSE IF fr.fn = "dh_before" THEN Goto(v, "dh_call_handler", fr)
    ELSE IF fr.fn = "dh_after" THEN Goto(v, "dh_install", fr)
    ELSE dh_escape(v, NULL, fr.e)

dh_rewind(v, fr) ==
    IF /\ SCM_PAIRP(v, fr.hp)
       /\ (fr.fn = "dh_all" \/ fr.hp # v.eps[fr.ep].handlers)
    THEN Goto([v EXCEPT !.handlers = SCM_CDR(v, fr.hp)], "Scm_ApplyRec",
              [ proc |-> SCM_CDR(v, SCM_CAR(v, fr.hp)), args |-> <<>>, caller |-> fr ])
    ELSE IF fr.fn = "dh_before" THEN Goto(v, "dh_call_handler", fr)
    ELSE IF fr.fn = "dh_after" THEN Goto(v, "dh_install", fr)
    ELSE dh_escape(v, NULL, fr.e)

(* The error handler has returned: save its results. *)
dh_handler_returned(v, fr) ==
    LET numVals == v.numVals
        fr1 == [fr EXCEPT !.result = v.val0,
                          !.numVals = numVals,
                          !.rvals = [i \in DOMAIN fr.rvals |->
                                        IF numVals > 1 /\ i <= numVals - 1
                                        THEN v.vals[i] ELSE fr.rvals[i]]]
    IN  IF ~v.eps[fr.ep].rewindBefore
        THEN Goto(v, "dh_rewind", [fr1 EXCEPT !.fn = "dh_after", !.hp = v.handlers])
        ELSE Goto(v, "dh_install", fr1)

(* The default handler that calls every error handler first. *)
Scm_VMDefaultExceptionHandler_handler_first(v, e) ==
    LET ep == v.escapePoint IN
    IF ep # NULL THEN
        Goto(v, "dh_call_handler", DhFrame("dh_before", ep, e, v.handlers))
    ELSE Goto(Log(v, "report", v.cstack),
              "dh_rewind", DhFrame("dh_all", NULL, e, v.handlers))

Scm_VMDefaultExceptionHandler(v, e) ==
    LET ep == v.escapePoint IN
    IF ep # NULL THEN
        IF v.eps[ep].rewindBefore
        THEN Goto(v, "dh_rewind", DhFrame("dh_before", ep, e, v.handlers))
        ELSE Goto(v, "dh_call_handler", DhFrame("dh_before", ep, e, v.handlers))
    ELSE \* Scm_ReportError(e), then the dynamic handlers are unwound
         Goto(Log(v, "report", v.cstack),
              "dh_rewind", DhFrame("dh_all", NULL, e, v.handlers))

(* The exception handler returns and stays installed. *)
xhandler_returned_keeps_handler(v, fr) ==
    IF SCM_SERIOUS_CONDITION_P(fr.e)
    THEN Scm_Error(v)
    ELSE ToScheme(v)

(* Scm_VMThrowException when the exception handler has returned. *)
xhandler_returned(v, fr) ==
    IF SCM_SERIOUS_CONDITION_P(fr.e)
    THEN Scm_Error([v EXCEPT !.exceptionHandler = DEFAULT_EXCEPTION_HANDLER])
    ELSE ToScheme(v)

(* safe_eval_wrap after Scm_ApplyRec has returned: the packet and the   *)
(* value returned to the caller of Scm_Eval, Scm_EvalCString and        *)
(* Scm_Apply.                                                           *)
safe_eval_packet(v, epak) ==
    IF SCM_UNBOUNDP(epak.exception)
    THEN [ ret |-> v.numVals,
           numResults |-> v.numVals,
           results |-> [i \in 1..v.numVals |-> IF i = 1 THEN v.val0 ELSE v.vals[i - 1]],
           exception |-> SCM_FALSE ]
    ELSE [ ret |-> -1,
           numResults |-> 0,
           results |-> <<>>,
           exception |-> epak.exception ]

safe_eval_returned(v, epak) ==
    LET w == [Log(v, "safe", epak.at) EXCEPT
                 !.events[Len(v.events) + 1] =
                     @ @@ [ packet |-> safe_eval_packet(v, epak), was |-> epak.was ]]
    IN  IF epak.from = "host" THEN ToHost(w) ELSE ToScheme(w)

(* process_queue in run_loop after process_queued_requests has         *)
(* returned: POP_CONT, then NEXT.                                       *)
process_queue_return(v) ==
    LET p == Call("POP_CONT", v, <<>>)
    IN  IF p.ccall = <<>> THEN ToLoop(p.v)
        ELSE Goto(ToLoop(p.v), "CALL_CCONT", p.ccall)

(* process_queued_requests that turns attentionRequest off when it has *)
(* tested signalPending and finalizerPending.                           *)
process_queued_requests_stop_clears(v) ==
    IF v.stopRequest THEN Goto([v EXCEPT !.attentionRequest = FALSE], "stop_lock", NULL)
    ELSE Call("process_queue_return", [v EXCEPT !.attentionRequest = FALSE], <<>>)

(* process_queued_requests from its test of vm->stopRequest: the thread *)
(* that has seen a request goes on to lock vm->vmlock.                  *)
process_queued_requests_stop(v) ==
    IF v.stopRequest THEN Goto(v, "stop_lock", NULL)
    ELSE Call("process_queue_return", v, <<>>)

(* SCM_INTERNAL_MUTEX_SAFE_LOCK_BEGIN(vm->vmlock) *)
stop_lock(v) == Goto([v EXCEPT !.vmlock = "vm"], "stop_locked", NULL)

(* The VM stops: SCM_INTERNAL_COND_BROADCAST wakes every thread that   *)
(* waits on vm->cond, and SCM_INTERNAL_COND_WAIT unlocks vm->vmlock     *)
(* and puts the VM's thread to sleep.                                   *)
stop_wait(v) ==
    Goto(Log([v EXCEPT !.stopRequest = FALSE, !.state = "STOPPED",
                       !.cond = {"vm"}, !.vmlock = "unlocked"],
             "stopped", v.cstack),
         "stop_wait", NULL)

(* process_queued_requests that does not test vm->stopRequest again. *)
stop_check_once(v) == stop_wait(v)

(* The second test of vm->stopRequest, with the lock: the VM stops, or  *)
(* unlocks vm->vmlock and returns.                                      *)
stop_check(v) ==
    IF v.stopRequest THEN stop_wait(v)
    ELSE Call("process_queue_return",
              Log([v EXCEPT !.vmlock = "unlocked"], "unstopped", v.cstack), <<>>)

(* The wait on vm->cond returns with vm->vmlock locked: the VM waits    *)
(* again, or leaves the loop.                                           *)
stop_wake(v) ==
    IF v.state = "STOPPED" THEN [v EXCEPT !.cond = @ \cup {"vm"}]
    ELSE Goto([v EXCEPT !.vmlock = "vm"], "stop_woken", NULL)

(* SCM_INTERNAL_MUTEX_SAFE_LOCK_END() *)
stop_unlock(v) == Goto([v EXCEPT !.vmlock = "unlocked"], "stop_return", NULL)

(* process_queued_requests returns to run_loop. *)
stop_return(v) == Call("process_queue_return", Log(v, "resumed", v.cstack), <<>>)

(* The signal handler and the finalizer of the run. *)
SignalHandler == 600
Finalizer == 610

(* Scm_VMFinalizerRun applies the finalizers that are due. *)
Scm_VMFinalizerRun(v) ==
    Goto([v EXCEPT !.finalizerPending = FALSE], "Scm_ApplyRec",
         [ proc |-> Finalizer, args |-> <<>>,
           caller |-> [ fn |-> "Scm_VMFinalizerRun" ] ])

process_queued_requests_finalizers(v) ==
    IF v.finalizerPending THEN Scm_VMFinalizerRun(v)
    ELSE Goto(v, "test stopRequest", NULL)

(* Scm_SigCheck applies the handlers of the signals in the queue. *)
Scm_SigCheck(v) ==
    Goto([v EXCEPT !.signalPending = FALSE], "Scm_ApplyRec",
         [ proc |-> SignalHandler, args |-> << SCM_FALSE >>,
           caller |-> [ fn |-> "Scm_SigCheck" ] ])

(* The VM without the records of the run. *)
Snapshot(v) == [v EXCEPT !.events = <<>>, !.trace = <<>>, !.interrupted = <<>>]

(* The VM at the interruption that ends, and the VM now, are told in    *)
(* the event.                                                           *)
LogRestored(v, was) ==
    [Log(v, "restored", v.cstack) EXCEPT
        !.events[Len(v.events) + 1] =
            @ @@ [ was |-> Head(was.interrupted), now |-> Snapshot(v) ],
        !.interrupted = Tail(was.interrupted)]

(* process_queued_requests_cc that leaves vm->vals as they are. *)
process_queued_requests_cc_keeps_vals(v, result, data) ==
    LogRestored([v EXCEPT !.numVals = data[1], !.val0 = data[2]], v)

(* The host continuation that process_queued_requests pushes. *)
process_queued_requests_cc(v, result, data) ==
    LET cp == IF data[1] > 1 THEN ListElems(v, data[3]) ELSE <<>>
    IN  LogRestored([v EXCEPT !.numVals = data[1],
                              !.val0 = data[2],
                              !.vals = [i \in DOMAIN v.vals |->
                                           IF i <= data[1] - 1 THEN cp[i]
                                           ELSE v.vals[i]]],
                    v)

process_queued_requests(v) ==
    LET h == IF v.numVals > 1 THEN get_result_loop(v, SCM_NIL, 1)
             ELSE [ v |-> v, r |-> NULL ]
        v1 == Scm_VMPushCC(h.v, process_queued_requests_cc_addr,
                           << v.numVals, v.val0, h.r >>)
    IN  Goto([v1 EXCEPT !.attentionRequest = FALSE], "test signalPending", NULL)

(* process_queued_requests from its test of vm->signalPending. *)
process_queued_requests_signals(v) ==
    IF v.signalPending THEN Scm_SigCheck(v)
    ELSE Goto(v, "test finalizerPending", NULL)

(* process_queue: in run_loop.  The VM as it is interrupted is kept. *)
process_queue(v) ==
    LET w == [Log(v, "process", v.cstack) EXCEPT
                 !.events[Len(v.events) + 1] = @ @@ [ was |-> Snapshot(v) ],
                 !.interrupted = << Snapshot(v) >> \o @]
    IN  Goto(PUSH_CONT(CHECK_STACK(w, CONT_FRAME_SIZE), w.pc),
             "process_queued_requests", NULL)

(* Scm_VMNextHandler: the record is popped and the long jump goes on to *)
(* the record before it.                                                *)
Scm_VMNextHandler(v) ==
    IF v.cstk[v.cstack].prev # NULL
    THEN Goto(Log([v EXCEPT !.cstack = v.cstk[v.cstack].prev], "next_handler",
                  v.cstack),
              "longjmp", NULL)
    ELSE exit(v, 1, v.cstack)                      \* Scm_Exit(1)

(* PORT_LOCK(p, vm) and PORT_UNLOCK(p) in the native code of the VM. *)
port_lock(v) ==
    [v EXCEPT !.port = PortRun(@, [OwnThreads EXCEPT ![1].pc = "PORT_LOCK"])]

port_unlock(v) ==
    Log([v EXCEPT !.port = PortRun(@, [OwnThreads EXCEPT ![1].pc = "PORT_UNLOCK"])],
        "unlock", v.cstack)

(* What PORT_SAFE_CALL has done at its record `at', which it made with  *)
(* the port as `locked' after the PORT_LOCK that found it as `before'.  *)
LogPort(v, did, at) ==
    [Log(v, did, at) EXCEPT
        !.events[Len(v.events) + 1] =
            @ @@ [ port |-> v.port,
                   before |-> v.cstk[at].caller.before,
                   locked |-> v.cstk[at].caller.locked,
                   prev |-> v.cstk[at].prev ]]

(* SCM_WHEN_ERROR of PORT_SAFE_CALL that leaves the port locked. *)
PORT_SAFE_CALL_when_error_keeps_lock(v) ==
    Scm_VMNextHandler(LogPort(v, "when_error", v.cstack))

(* SCM_WHEN_ERROR of PORT_SAFE_CALL: PORT_UNLOCK(p); SCM_NEXT_HANDLER *)
PORT_SAFE_CALL_when_error(v) ==
    Scm_VMNextHandler(LogPort(port_unlock(v), "when_error", v.cstack))

(* SCM_END_PROTECT of PORT_SAFE_CALL, and the port operation after it:  *)
(* PORT_UNLOCK(p), and the return to its caller.                        *)
PORT_SAFE_CALL_end(v, from) ==
    LET w == port_unlock(LogPort(Scm_VMRewindProtect(v), "safe_call_end", v.cstack))
    IN  IF from = "host" THEN ToHost(w) ELSE ToScheme(w)

(* PORT_SAFE_CALL(p, call), with the port as `locked' after the         *)
(* PORT_LOCK that found it as `before'.  The call returns, raises an    *)
(* error, or applies a Scheme procedure.                                *)
PORT_SAFE_CALL(v, call, from, before) ==
    LET caller == [ fn |-> "PORT_SAFE_CALL", from |-> from,
                    before |-> before, locked |-> v.port ]
        w == Scm_VMUnwindProtect(v, caller)
        u == LogPort(w, "safe_call", w.cstack)
    IN  CASE call.k = "return" -> PORT_SAFE_CALL_end(u, from)
          [] call.k = "error" -> Scm_Error(u)
          [] call.k = "apply" ->
                Goto(u, "Scm_ApplyRec",
                     [ proc |-> call.proc, args |-> <<>>,
                       caller |-> [caller EXCEPT !.fn = "PORT_SAFE_CALL_call"] ])

(* An operation on the port, such as Scm_Getc: PORT_LOCK(p, vm);        *)
(* PORT_SAFE_CALL(p, call); PORT_UNLOCK(p).                             *)
Scm_Getc(v, call) ==
    PORT_SAFE_CALL(port_lock(v), call,
                   IF v.next.op = "host" THEN "host" ELSE "native", v.port)

(* The native code after a call of Scm_ApplyRec returns. *)
CReturn(v, fr) ==
    IF fr.fn \in {"dh_before", "dh_after", "dh_all"}
    THEN Goto(v, "dh_rewind", [fr EXCEPT !.hp = SCM_CDR(v, fr.hp)])
    ELSE IF fr.fn = "dh_handler" THEN dh_handler_returned(v, fr)
    ELSE IF fr.fn = "xhandler" THEN xhandler_returned(v, fr)
    ELSE IF fr.fn = "safe" THEN safe_eval_returned(v, fr)
    ELSE IF fr.fn = "Scm_SigCheck" THEN Goto(v, "test finalizerPending", NULL)
    ELSE IF fr.fn = "Scm_VMFinalizerRun" THEN Goto(v, "test stopRequest", NULL)
    ELSE IF fr.fn = "PORT_SAFE_CALL_call" THEN PORT_SAFE_CALL_end(v, fr.from)
    ELSE IF fr.fn = "host" THEN ToHost(v)
    ELSE ToScheme(v)

(* run_loop has returned, with vm->cont as it was when it did, to the   *)
(* entry that owns the record vm->cstack.                               *)
LogReturn(v, did, was) ==
    [v EXCEPT !.events = Append(@, [ did |-> did, at |-> was.cstack,
                                     cstack |-> v.cstack, cont |-> was.cont,
                                     own |-> was.cstk[was.cstack].cont ])]

(* user_eval_inner after run_loop has returned. *)
(* The event of a return of user_eval_inner tells, besides what         *)
(* LogReturn tells, what the VM is now and what it was at the entry.    *)
LogBalance(v, was) ==
    [LogReturn(v, "return", was) EXCEPT
        !.events[Len(v.events) + 1] =
            @ @@ [ now |-> Frozen(v), entry |-> was.cstk[was.cstack].entry,
                   restarts |-> was.cstk[was.cstack].restarts ]]

user_eval_inner_return(v) ==
    LET cs == v.cstk[v.cstack] IN
    IF v.cont = cs.cont \/ v.cont = NULL THEN
        LET v1 == Call("POP_CONT", [v EXCEPT !.cont = cs.cont], <<>>).v
        IN  Goto(LogBalance([v1 EXCEPT !.pc = cs.prev_pc, !.cstack = cs.prev], v),
                 "CReturn", cs.caller)
    ELSE Scm_Error(LogReturn(v, "ghost", v))
                            \* attempt to return from a ghost continuation

(* The entry that a long jump reaches first installs the continuation. *)
longjmp_adjust_at_first(v) ==
    LET cs == v.cstk[v.cstack]
        ep == v.escapeData[1]
        up == [Call("POP_CONT", [v EXCEPT !.cont = cs.cont], <<>>).v EXCEPT !.cstack = cs.prev]
    IN
    IF cs.caller.fn = "dh_protect" THEN
        \* SCM_WHEN_ERROR of the default exception handler, SCM_NEXT_HANDLER
        LET v1 == SCM_VM_FLOATING_EP_SET(v, v.eps[cs.caller.ep].floating)
        IN  IF cs.prev # NULL
            THEN Goto(Log([v1 EXCEPT !.cstack = cs.prev], "protect", v.cstack),
                      "longjmp", NULL)
            ELSE exit(v1, 1, v.cstack)              \* Scm_Exit(1)
    ELSE IF v.escapeReason = "CONT" THEN
        IF v.eps[ep].cstack = v.cstack \/ cs.prev # NULL THEN
            LET h == Call("throw_cont_calculate_handlers", v, ep)
            IN  Goto(Log([h.v EXCEPT !.pc = PC_TO_RETURN, !.escapeReason = "NONE",
                                     !.cstk[v.cstack].restarts = @ + 1],
                         "adjust", v.cstack),
                     "throw_cont_body",
                     [ handlers |-> h.r, ep |-> ep, args |-> v.escapeData[2] ])
        ELSE IF cs.prev = NULL THEN [v EXCEPT !.failed = TRUE]
        ELSE Goto(Log(up, "relay", v.cstack), "longjmp", NULL)
    ELSE IF v.escapeReason = "ERROR" THEN
        IF ep # NULL /\ v.eps[ep].cstack = v.cstack
        THEN ToLoop(Log([v EXCEPT !.cont = v.eps[ep].cont, !.pc = PC_TO_RETURN,
                                  !.escapeReason = "NONE",
                                  !.cstk[v.cstack].restarts = @ + 1],
                        "caught", v.cstack))
        ELSE IF cs.prev = NULL THEN exit(v, EX_SOFTWARE, v.cstack)
        ELSE Goto(Log(up, "unwind", v.cstack), "longjmp", NULL)
    ELSE [v EXCEPT !.failed = TRUE]       \* Scm_Panic("invalid longjmp")

(* siglongjmp(vm->cstack->jbuf, 1): the code after sigsetjmp in the frame *)
(* that owns the record.                                                  *)
longjmp(v) ==
    LET cs == v.cstk[v.cstack]
        ep == v.escapeData[1]
        up == [Call("POP_CONT", [v EXCEPT !.cont = cs.cont], <<>>).v EXCEPT !.cstack = cs.prev]
    IN
    IF cs.caller.fn = "PORT_SAFE_CALL" THEN PORT_SAFE_CALL_when_error(v)
    ELSE IF cs.caller.fn = "dh_protect" THEN
        \* SCM_WHEN_ERROR of the default exception handler, SCM_NEXT_HANDLER
        LET v1 == SCM_VM_FLOATING_EP_SET(v, v.eps[cs.caller.ep].floating)
        IN  IF cs.prev # NULL
            THEN Goto(Log([v1 EXCEPT !.cstack = cs.prev], "protect", v.cstack),
                      "longjmp", NULL)
            ELSE exit(v1, 1, v.cstack)              \* Scm_Exit(1)
    ELSE IF v.escapeReason = "CONT" THEN
        IF v.eps[ep].cstack = v.cstack THEN
            LET h == Call("throw_cont_calculate_handlers", v, ep)
            IN  Goto(Log([h.v EXCEPT !.pc = PC_TO_RETURN, !.escapeReason = "NONE",
                                     !.cstk[v.cstack].restarts = @ + 1],
                         "adjust", v.cstack),
                     "throw_cont_body",
                     [ handlers |-> h.r, ep |-> ep, args |-> v.escapeData[2] ])
        ELSE IF cs.prev = NULL THEN [v EXCEPT !.failed = TRUE]
        ELSE Goto(Log(up, "relay", v.cstack), "longjmp", NULL)
    ELSE IF v.escapeReason = "ERROR" THEN
        IF ep # NULL /\ v.eps[ep].cstack = v.cstack
        THEN ToLoop(Log([v EXCEPT !.cont = v.eps[ep].cont, !.pc = PC_TO_RETURN,
                                  !.escapeReason = "NONE",
                                  !.cstk[v.cstack].restarts = @ + 1],
                        "caught", v.cstack))
        ELSE IF cs.prev = NULL THEN exit(v, EX_SOFTWARE, v.cstack)
        ELSE Goto(Log(up, "unwind", v.cstack), "longjmp", NULL)
    ELSE [v EXCEPT !.failed = TRUE]       \* Scm_Panic("invalid longjmp")

----------------------------------------------------------------------------
(* The interpreter loop. *)

(* A native procedure is called with its arguments. *)
CallSubr(v, proc, args) ==
    LET func == v.heap[-proc].subr
        data == v.heap[-proc].data
    IN  IF func = "install_ehandler" THEN install_ehandler(v, data)
        ELSE IF func = "discard_ehandler" THEN discard_ehandler(v, data)
        ELSE IF func = "install_xhandler" THEN install_xhandler(v, data)
        ELSE IF func = "safe_eval_int" THEN safe_eval_int(v, data)
        ELSE IF func = "safe_eval_thunk" THEN safe_eval_thunk(v, data)
        ELSE IF func = "safe_eval_handler" THEN safe_eval_handler(v, data, args)
        ELSE LET l == Scm_List(v, args)         \* the continuation takes a rest list
             IN  throw_continuation(l.v, l.r, data)

(* TAIL_CALL nargs: the call of the procedure in VAL0.  A native          *)
(* procedure runs at once and its value is returned through the RET that  *)
(* follows; a Scheme procedure gets its environment frame and its code    *)
(* starts to run.                                                         *)
vm_call_proc(v, proc, nargs) ==
    IF SCM_SUBRP(v, proc)
    THEN CallSubr([v EXCEPT !.sp = v.argp, !.pc = PC_TO_RETURN, !.numVals = 1],
                  proc, RdSeq(v, v.argp, nargs))
    ELSE [FINISH_ENV(CHECK_STACK_PARANOIA(v, ENV_SIZE(0)), SCM_FALSE, NULL) EXCEPT
             !.pc = proc, !.base = proc,
             !.next = [op |-> "scheme"],
             !.trace = Append(@, proc)]

vm_call(v, nargs) == vm_call_proc(DISCARD_ENV(v), v.val0, nargs)

(* CALL_CCONT(p, v, d): host callbacks other than the four of this file   *)
(* are opaque and return the value they are given.                        *)
CALL_CCONT(v, after, val, data) ==
    IF after = dynwind_before_cc_addr THEN dynwind_before_cc(v, val, data)
    ELSE IF after = dynwind_body_cc_addr THEN dynwind_body_cc(v, val, data)
    ELSE IF after = dynwind_after_cc_addr THEN dynwind_after_cc(v, val, data)
    ELSE IF after = throw_cont_cc_addr THEN throw_cont_cc(v, val, data)
    ELSE IF after = process_queued_requests_cc_addr
    THEN process_queued_requests_cc(v, val, data)
    ELSE [v EXCEPT !.val0 = val]

(* One turn of run_loop: the instruction at PC. *)
run_loop(v) ==
    IF v.attentionRequest THEN Call("process_queue", v, <<>>)
    ELSE IF v.pc \in { apply_rec_code(n) : n \in 0..SCM_VM_MAX_VALUES } THEN
        \* VALUES_APPLY: the values are pushed and the procedure is called
        LET nargs == v.pc - apply_rec_code(0)
        IN  Goto(PushArgs(IF nargs = 0 THEN v ELSE CHECK_STACK_PARANOIA(v, nargs),
                          [i \in 1..nargs |-> v.vals[i]]),
                 "vm_call", nargs)
    ELSE IF v.pc \in { apply_calls(n) : n \in 0..4 } THEN
        Goto(v, "vm_call", v.pc - apply_calls(0))
    ELSE IF v.pc = PC_TO_RETURN THEN
        \* RETURN_OP
        IF v.cont = NULL \/ BOUNDARY_FRAME_P(v, v.cont)
        THEN Goto(v, "user_eval_inner_return", NULL)     \* return;
        ELSE LET p == Call("POP_CONT", v, <<>>)
             IN  IF p.ccall = <<>> THEN p.v
                 ELSE Goto(p.v, "CALL_CCONT", p.ccall)
    ELSE ToScheme(v)

(* The function named by `next', entered from the interpreter loop. *)
Dispatch(v) ==
    LET w == ToLoop(v)
        fr == v.next.fr
    IN  CASE v.next.op = "loop" -> run_loop(v)
          [] v.next.op = "vm_call" -> vm_call(w, fr)
          [] v.next.op = "CALL_CCONT" -> CALL_CCONT(w, fr[1], fr[2], fr[3])
          [] v.next.op = "throw_cont_body" ->
                throw_cont_body(w, fr.handlers, fr.ep, fr.args)
          [] v.next.op = "Scm_ApplyRec" -> Scm_ApplyRec(w, fr.proc, fr.args, fr.caller)
          [] v.next.op = "Scm_VMThrowException" -> Scm_VMThrowException(w, fr)
          [] v.next.op = "Scm_VMDefaultExceptionHandler" ->
                Scm_VMDefaultExceptionHandler(w, fr)
          [] v.next.op = "dh_rewind" -> dh_rewind(w, fr)
          [] v.next.op = "dh_call_handler" -> dh_call_handler(w, fr)
          [] v.next.op = "dh_install" -> dh_install(w, fr)
          [] v.next.op = "longjmp" -> longjmp(w)
          [] v.next.op = "user_eval_inner_return" ->
                IF v.cstack = NULL THEN [v EXCEPT !.failed = TRUE]
                ELSE user_eval_inner_return(w)
          [] v.next.op = "CReturn" -> CReturn(w, fr)
          [] v.next.op = "process_queued_requests" -> process_queued_requests(w)
          [] v.next.op = "test signalPending" -> process_queued_requests_signals(w)
          [] v.next.op = "test finalizerPending" -> process_queued_requests_finalizers(w)
          [] v.next.op = "test stopRequest" -> process_queued_requests_stop(w)

Halted(v) == v.overflow \/ v.exited \/ v.failed

RECURSIVE Go(_)
Go(v) ==
    IF Halted(v) \/ v.next.op \in {"scheme", "host", "reinstated",
                                      "stop_lock", "stop_locked", "stop_wait", "stop_woken",
                                      "stop_return"}
    THEN v
    ELSE Go(Dispatch(v))

(* The accesses of process_queued_requests to the flags that other      *)
(* threads set: it clears attentionRequest, or tests the flag of a      *)
(* request.                                                             *)
QueueAccesses ==
    { "process_queued_requests", "test signalPending", "test finalizerPending",
      "test stopRequest" }

(* The VM's thread runs up to its next access to a flag, or up to where *)
(* Scheme code, the host program or a step of the stop protocol is      *)
(* next.                                                                *)
RECURSIVE GoToAccess(_)
GoToAccess(v) ==
    IF Halted(v) \/ v.next.op \in QueueAccesses
                 \/ v.next.op \in {"scheme", "host", "reinstated",
                                    "stop_lock", "stop_locked", "stop_wait", "stop_woken",
                                    "stop_return"}
    THEN v
    ELSE GoToAccess(Call("Dispatch", v, <<>>))

----------------------------------------------------------------------------
(* The stack runs: the instructions that build and pop frames, taken in   *)
(* any order, with promotion at any instruction boundary.  An instruction *)
(* is a record; Exec is its effect on the VM, up to the next instruction  *)
(* of Scheme code.                                                        *)

(* The procedures of the n-th dynamic-wind of a run: role 1 is its       *)
(* before-thunk, 2 its body, 3 its after-thunk.                          *)
WindThunk(n, role) == 1000 + 10 * n + role
IsWindThunk(p) == p \in 1000..1999
ThunkWind(p) == (p - 1000) \div 10
ThunkRole(p) == p % 10

(* The number of dynamic-winds called so far. *)
WindCount(v) ==
    Cardinality({ ThunkWind(v.trace[j]) : j \in { k \in DOMAIN v.trace : IsWindThunk(v.trace[k]) } })

(* The continuation procedure of the escape point ep. *)
ContProc(v, ep) ==
    -(CHOOSE j \in DOMAIN v.heap :
          /\ "subr" \in DOMAIN v.heap[j]
          /\ v.heap[j].subr = "throw_continuation"
          /\ v.heap[j].data = ep)

(* (dynamic-wind before body after), called by Scheme code in tail position *)
dynamic_wind(v, n) ==
    Scm_VMDynamicWind(v, WindThunk(n, 1), WindThunk(n, 2), WindThunk(n, 3))

Promotions == {"get_env", "save_cont", "save_stack"}

(* Native code, or the host program, calls Scm_VMGetResult: the list is *)
(* told in the event.                                                   *)
get_result(v) ==
    LET g == Scm_VMGetResult(v)
    IN  [Log(g.v, "result", v.cstack) EXCEPT
            !.events[Len(v.events) + 1] = @ @@ [ list |-> g.r ]]

ExecInstr(v, i) ==
       CASE i.k = "push" -> PushArgs(CHECK_STACK_PARANOIA(v, Len(i.args)), i.args)
         [] i.k = "push_cont" -> PUSH_CONT(CHECK_STACK(v, CONT_FRAME_SIZE), i.pc)
         [] i.k = "push_cc" -> Scm_VMPushCC(v, i.pc, i.data)
         [] i.k = "let" ->
               PUSH_LOCAL_ENV(CHECK_STACK_PARANOIA(v, ENV_SIZE(1)), 1, SCM_FALSE)
         [] i.k = "apply" -> ToLoop(Scm_VMApplyN(v, i.proc, i.args))
         [] i.k = "return" -> ToLoop([v EXCEPT !.pc = PC_TO_RETURN])
         [] i.k = "get_env" -> get_env(v).v
         [] i.k = "save_cont" -> Call("save_cont", v, <<>>)
         [] i.k = "save_stack" -> Call("save_stack", v, <<>>)
         [] i.k = "apply_rec" ->
               Goto(v, "Scm_ApplyRec",
                    [ proc |-> i.proc, args |-> <<>>,
                      caller |-> [ fn |-> IF v.next.op = "host" THEN "host"
                                          ELSE "native" ] ])
         [] i.k = "safe_apply" -> safe_eval_wrap(v, i.proc, <<>>)
         [] i.k = "with_error_handler" ->
               ToLoop(with_error_handler(v, i.handler, i.proc, FALSE))
         [] i.k = "with_guard_handler" ->
               ToLoop(with_error_handler(v, i.handler, i.proc, TRUE))
         [] i.k = "with_exception_handler" ->
               ToLoop(Scm_VMWithExceptionHandler(v, i.handler, i.proc))
         [] i.k = "error" -> Scm_Error(v)
         [] i.k = "raise" -> Goto(v, "Scm_VMThrowException", i.cond)
         [] i.k = "values" ->
               Scm_VMValues(ToLoop([v EXCEPT !.pc = PC_TO_RETURN]), i.args)
         [] i.k = "dynamic_wind" -> ToLoop(dynamic_wind(v, WindCount(v) + 1))
         [] i.k = "callcc" -> ToLoop(Scm_VMCallCC(v, i.proc))
         [] i.k = "callpc" -> ToLoop(Scm_VMCallPC(v, i.proc))
         [] i.k = "throw" -> ToLoop(Scm_VMApplyN(v, ContProc(v, i.ep), i.args))
         [] i.k = "getc" -> Scm_Getc(v, i.call)
         [] i.k = "get_result" -> get_result(v)
         [] i.k = "set_result" -> Scm_VMSetResult(v, i.obj)
         [] i.k = "resume" -> ToLoop(v)

(* NEXT that fetches the instruction whatever vm->attentionRequest is. *)
NEXT_without_check(v, i) == ExecInstr(v, i)

(* NEXT: the queued requests are processed, or the instruction i is     *)
(* fetched and dispatched.                                              *)
NEXT(v, i) ==
    IF v.next.op = "scheme" /\ v.attentionRequest THEN Call("process_queue", v, <<>>)
    ELSE ExecInstr(v, i)

(* The functions of the VM that are called from many places, called by  *)
(* name; "Exec" is the instruction a: its events are recorded, and the  *)
(* addresses of the host-stack records made while it runs are those of  *)
(* dead records when a.reuse says so.                                   *)
Call(f, v, a) ==
    CASE f = "save_stack" -> save_stack(v)
      [] f = "save_cont" -> save_cont(v)
      [] f = "POP_CONT" -> POP_CONT(v)
      [] f = "throw_cont_calculate_handlers" -> throw_cont_calculate_handlers(v, a)
      [] f = "process_queue" -> process_queue(v)
      [] f = "process_queue_return" -> process_queue_return(v)
      [] f = "Exec" ->
            Go(NEXT([v EXCEPT !.events = <<>>,
                              !.reuse = "reuse" \in DOMAIN a /\ a.reuse], a))
      [] f = "Go" -> Go(v)
      [] f = "Dispatch" -> Dispatch(v)
      [] f = "GoToAccess" -> GoToAccess(v)
      [] f = "ExecToAccess" ->
            GoToAccess(NEXT([v EXCEPT !.events = <<>>, !.reuse = FALSE], a))

Exec(v, i) == Call("Exec", v, i)

(* The instruction on the VM, vs[1], and on the reference VM, vs[2],     *)
(* which executes the same instructions and never promotes.              *)
Pair(f) == << f[1], f[2] >>

ExecPair(vs, i) ==
    Pair([j \in DOMAIN vs |-> IF j = 2 /\ i.k \in Promotions THEN vs[j] ELSE Exec(vs[j], i)])

(* A sequence of instructions; a halted VM executes no more. *)
RECURSIVE RunPair(_, _)
RunPair(vs, prog) ==
    IF Halted(vs[1]) \/ prog = <<>> THEN vs
    ELSE RunPair(ExecPair(vs, Head(prog)), Tail(prog))

(* Prefixes of runs.  A run starts in the state one of them leaves. *)
Prefixes ==
    { \* an argument block saved by a continuation frame, and a new one
      << [k |-> "apply_rec", proc |-> 500],
         [k |-> "push", args |-> <<501, 502>>],
         [k |-> "push_cont", pc |-> 503],
         [k |-> "push", args |-> <<504>>] >>,
      \* nested local environments under a C continuation
      << [k |-> "apply_rec", proc |-> 510],
         [k |-> "let"],
         [k |-> "push_cont", pc |-> 511],
         [k |-> "let"],
         [k |-> "push_cc", pc |-> 512, data |-> <<513>>] >>,
      \* the body of with-error-handler
      << [k |-> "apply_rec", proc |-> 520],
         [k |-> "with_error_handler", handler |-> 521, proc |-> 522],
         [k |-> "push", args |-> <<523>>] >>,
      \* an error handler running
      << [k |-> "apply_rec", proc |-> 530],
         [k |-> "push_cont", pc |-> 531],
         [k |-> "with_error_handler", handler |-> 532, proc |-> 533],
         [k |-> "error"] >>,
      \* a frame with a promoted parent
      << [k |-> "apply_rec", proc |-> 540],
         [k |-> "apply", proc |-> 541, args |-> <<542, 543>>],
         [k |-> "get_env"],
         [k |-> "let"] >>,
      \* frames pushed on top of a promoted continuation with saved arguments
      << [k |-> "apply_rec", proc |-> 560],
         [k |-> "push", args |-> <<561, 562>>],
         [k |-> "push_cont", pc |-> 563],
         [k |-> "save_cont"],
         [k |-> "let"],
         [k |-> "push_cont", pc |-> 564] >>,
      \* an error handler has returned
      << [k |-> "apply_rec", proc |-> 570],
         [k |-> "push", args |-> <<571>>],
         [k |-> "push_cont", pc |-> 572],
         [k |-> "with_error_handler", handler |-> 573, proc |-> 574],
         [k |-> "error"],
         [k |-> "return"] >>,
      \* an error handler running inside the body of with-error-handler
      << [k |-> "apply_rec", proc |-> 580],
         [k |-> "with_error_handler", handler |-> 581, proc |-> 582],
         [k |-> "push_cont", pc |-> 583],
         [k |-> "with_error_handler", handler |-> 584, proc |-> 585],
         [k |-> "error"],
         [k |-> "let"] >>,
      \* the interpreter run recursively above frames in the stack
      << [k |-> "apply_rec", proc |-> 590],
         [k |-> "let"],
         [k |-> "push", args |-> <<591>>],
         [k |-> "apply_rec", proc |-> 592],
         [k |-> "push_cont", pc |-> 593] >>,
      \* two continuation frames that share an environment
      << [k |-> "apply_rec", proc |-> 600],
         [k |-> "let"],
         [k |-> "push_cont", pc |-> 601],
         [k |-> "push_cont", pc |-> 602],
         [k |-> "let"] >>,
      \* a C continuation under an argument block
      << [k |-> "apply_rec", proc |-> 610],
         [k |-> "push_cc", pc |-> 611, data |-> <<612, 613>>],
         [k |-> "push", args |-> <<614, 615>>] >>,
      \* a call with many arguments
      << [k |-> "apply_rec", proc |-> 550],
         [k |-> "push", args |-> [j \in 1..(StackSize - 6) |-> 550 + j]] >> }

(* Argument values, return addresses and procedures are opaque to the     *)
(* stack manager, which only copies them, so each instruction uses fresh  *)
(* ones: any other choice of values is a renaming of these.               *)
FreshArgs(k) == [j \in 1..k |-> 10 * (nsteps + 1) + j]
FreshPc == 10 * (nsteps + 1)
FreshProc == 100 + 10 * (nsteps + 1)

(* The frame registers before the last instruction. *)
Registers(v) == [ cont |-> v.cont, env |-> v.env, argp |-> v.argp, sp |-> v.sp ]

(* No other thread. *)
NoThreads == <<>>

Started(vs) == vm = vs[1] /\ ref = vs[2] /\ threads = NoThreads /\ port = Scm_MakePort

InitStack ==
    /\ \E p \in Prefixes :
          Started(RunPair(<< Scm__InitVM(StackSize), Scm__InitVM(RefStackSize) >>, p))
    /\ nsteps = 0
    /\ last = [ i |-> [k |-> "init"], pre |-> Registers(Scm__InitVM(StackSize)) ]

Running ==
    /\ nsteps < MaxSteps
    /\ vm.next.op = "scheme"
    /\ ~Halted(vm)

Stepped(vs, i) ==
    /\ vm' = vs[1]
    /\ ref' = vs[2]
    /\ nsteps' = nsteps + 1
    /\ last' = [ i |-> i, pre |-> Registers(vm) ]
    /\ UNCHANGED << threads, port >>

Step(i) == Running /\ Stepped(ExecPair(<< vm, ref >>, i), i)


(* PUSH: k more words of the argument block under construction. *)
StkPush == \E k \in ArgCounts : Step([k |-> "push", args |-> FreshArgs(k)])

(* A non-tail call pushes a continuation frame. *)
StkPushCont == Step([k |-> "push_cont", pc |-> FreshPc])

(* Native code pushes a C continuation with its opaque words. *)
StkPushCC ==
    \E n \in DataSizes : Step([k |-> "push_cc", pc |-> FreshPc, data |-> FreshArgs(n)])

(* LET: a local environment of one variable. *)
StkLet == Step([k |-> "let"])

(* A tail call of a Scheme procedure with k arguments: the local frame is *)
(* discarded and the arguments become the callee's frame.                 *)
StkApply ==
    \E k \in ArgCounts : Step([k |-> "apply", proc |-> FreshProc, args |-> FreshArgs(k)])

(* RET *)
StkReturn == Step([k |-> "return"])

(* A closure is made: get_env. *)
StkGetEnv ==
    /\ vm.env # NULL
    /\ Step([k |-> "get_env"])

(* The continuation is captured: save_cont. *)
StkSaveCont == Step([k |-> "save_cont"])

(* Stack promotion at an instruction boundary. *)
StkSaveStack == Step([k |-> "save_stack"])

(* Native code called from Scheme runs the interpreter recursively. *)
StkApplyRec ==
    /\ Len(vm.cstk) < MaxCStack
    /\ Step([k |-> "apply_rec", proc |-> FreshProc])

(* with-error-handler in tail position *)
StkWithErrorHandler ==
    /\ Len(vm.eps) < MaxEps
    /\ Step([k |-> "with_error_handler", handler |-> FreshProc + 1, proc |-> FreshProc])

(* An error is raised while an escape point is installed. *)
StkError ==
    /\ vm.escapePoint # NULL
    /\ Len(vm.cstk) < MaxCStack
    /\ Step([k |-> "error"])

NextStack ==
    \/ StkPush
    \/ StkPushCont
    \/ StkPushCC
    \/ StkLet
    \/ StkApply
    \/ StkReturn
    \/ StkGetEnv
    \/ StkSaveCont
    \/ StkSaveStack
    \/ StkApplyRec
    \/ StkWithErrorHandler
    \/ StkError

SpecStack == InitStack /\ [][NextStack]_vars

----------------------------------------------------------------------------
(* The control runs: Scheme code that calls dynamic-wind, call/cc,        *)
(* continuations, with-error-handler and error, in any order.  The        *)
(* thunks of a dynamic-wind return values and do nothing else; every      *)
(* other procedure may do anything.  A run starts after one of the        *)
(* prefixes below; the reference VM plays no part in these runs.          *)

MaxCtlSteps == 5
MaxErrCStack == 5    \* host-stack records there can be when an error is raised
MaxWinds == 2
ThrowCounts == 0..SCM_VM_MAX_VALUES
ValueCounts == 0..SCM_VM_MAX_VALUES
ThrowArgs(n) == [j \in 1..n |-> 70 + j]
ValueArgs(n) == [j \in 1..n |-> 80 + j]

CtlPrefixes ==
    { \* the host has applied a procedure
      << [k |-> "apply_rec", proc |-> 500] >>,
      \* the host has applied a procedure that captured a continuation and
      \* has returned
      << [k |-> "apply_rec", proc |-> 500],
         [k |-> "callcc", proc |-> 502],
         [k |-> "values", args |-> <<81>>] >>,
      \* the body of a dynamic-wind, a continuation captured outside it
      << [k |-> "apply_rec", proc |-> 500],
         [k |-> "push_cont", pc |-> 501],
         [k |-> "callcc", proc |-> 502],
         [k |-> "dynamic_wind"],
         [k |-> "values", args |-> <<81>>] >>,
      \* the body of a second dynamic-wind, a continuation captured in the
      \* body of the first, which has returned
      << [k |-> "apply_rec", proc |-> 500],
         [k |-> "dynamic_wind"],
         [k |-> "values", args |-> <<81>>],
         [k |-> "callcc", proc |-> 502],
         [k |-> "values", args |-> <<81>>],
         [k |-> "values", args |-> <<81>>],
         [k |-> "apply_rec", proc |-> 510],
         [k |-> "dynamic_wind"],
         [k |-> "values", args |-> <<81>>] >>,
      \* the body of a dynamic-wind in the body of with-error-handler
      << [k |-> "apply_rec", proc |-> 500],
         [k |-> "push_cont", pc |-> 501],
         [k |-> "with_error_handler", handler |-> 520, proc |-> 521],
         [k |-> "dynamic_wind"],
         [k |-> "values", args |-> <<81>>] >>,
      \* native code called from the body of a dynamic-wind runs the
      \* interpreter; a continuation captured outside
      << [k |-> "apply_rec", proc |-> 500],
         [k |-> "push_cont", pc |-> 501],
         [k |-> "callcc", proc |-> 502],
         [k |-> "dynamic_wind"],
         [k |-> "values", args |-> <<81>>],
         [k |-> "apply_rec", proc |-> 530] >>,
      \* the body of a dynamic-wind in the body of another, a continuation
      \* captured outside both
      << [k |-> "apply_rec", proc |-> 500],
         [k |-> "push_cont", pc |-> 501],
         [k |-> "callcc", proc |-> 502],
         [k |-> "dynamic_wind"],
         [k |-> "values", args |-> <<81>>],
         [k |-> "dynamic_wind"],
         [k |-> "values", args |-> <<81, 82>>] >> }

(* The entries of the handler list l, front first.  An entry is the pair *)
(* (before . after) that dynwind_before_cc makes.                         *)
Reversed(q) == [j \in 1..Len(q) |-> q[Len(q) + 1 - j]]
Without(q, r) == SelectSeq(q, LAMBDA e : \A j \in DOMAIN r : r[j] # e)
AfterThunks(v, q) == [j \in DOMAIN q |-> SCM_CDR(v, q[j])]
BeforeThunks(v, q) == [j \in DOMAIN q |-> SCM_CAR(v, q[j])]
SchemeThunks(q) == SelectSeq(q, IsWindThunk)

(* The thunks a reinstatement has to call, from the current list C and   *)
(* the target list T.                                                    *)
ExpectedThunks(v, C, T) ==
    SchemeThunks(AfterThunks(v, Without(C, T))
                 \o BeforeThunks(v, Without(Reversed(T), C)))

(* The host frame that owned the record the escape point points to is   *)
(* live: no later frame has taken its place.                            *)
LiveCStack(v, ep) ==
    /\ v.eps[ep].cstack # NULL
    /\ FindCStack(v, v.cstack, v.eps[ep].cstack) # NULL
    /\ FrameOf(v, v.eps[ep].cstack) = v.eps[ep].frame

(* The record of a reinstatement, made when the continuation procedure   *)
(* is called.                                                            *)
ThrowRecord(v, ep, args) ==
    [ ep |-> ep, args |-> args, ntrace |-> Len(v.trace),
      cstack |-> v.eps[ep].cstack,
      frame |-> v.eps[ep].frame,
      from |-> v.cstack,
      live |-> LiveCStack(v, ep),
      path |-> SelectSeq(CStackPath(v, v.cstack, v.eps[ep].cstack),
                         LAMBDA cs : IsRunLoopEntry(v, cs)),
      cont |-> v.cont,
      contpc |-> IF v.cont = NULL THEN NULL ELSE CGet(v, v.cont, "pc"),
      target |-> v.eps[ep].handlers,
      current |-> v.handlers,
      expect |-> ExpectedThunks(v, ListElems(v, v.handlers),
                                ListElems(v, v.eps[ep].handlers)),
      fresh |-> last.i.k = "callcc" /\ last.i.ep = ep,
      capture |-> last.pre ]

(* The cells of the handler list l in front of the list saved: all of  *)
(* l when saved is not a tail of it.                                    *)
RECURSIVE CellsBefore(_, _, _)
CellsBefore(v, l, saved) ==
    IF ~SCM_PAIRP(v, l) \/ l = saved THEN <<>>
    ELSE << l >> \o CellsBefore(v, SCM_CDR(v, l), saved)

(* The positions of l whose cell has a Scheme after-thunk. *)
SchemeAfter(v, ps) ==
    SelectSeq(ps, LAMBDA p : IsWindThunk(SCM_CDR(v, SCM_CAR(v, p))))

(* The record of an error raised when there is an escape point: the     *)
(* after-thunks the default handler has to call to unwind to it, and    *)
(* the handler list each has to be called with.                         *)
UnwindRecord(v, outer, started) ==
    LET ep == v.escapePoint
        ps == SchemeAfter(v, CellsBefore(v, v.handlers, v.eps[ep].handlers))
    IN  [ ep |-> NULL, uep |-> ep, ntrace |-> Len(v.trace),
          outer |-> outer,
          started |-> { p \in started : p[1] # ep }
                      \cup { << ep, SCM_VM_FLOATING_EP(v) >> },
          saved |-> v.eps[ep].handlers,
          current |-> v.handlers,
          ehandler |-> v.eps[ep].ehandler,
          rewindBefore |-> v.eps[ep].rewindBefore,
          prev |-> v.eps[ep].prev,
          was |-> SCM_VM_FLOATING_EP(v),
          thunks |-> [j \in DOMAIN ps |-> SCM_CDR(v, SCM_CAR(v, ps[j]))],
          rests |-> [j \in DOMAIN ps |-> SCM_CDR(v, ps[j])] ]

(* The error handler of the escape point of the last error has been    *)
(* called by the last step and its code is about to run.                *)
HandlerRunning ==
    /\ "uep" \in DOMAIN last.throw
    /\ ~(vm.overflow \/ vm.exited \/ vm.failed)
    /\ vm.next.op = "scheme"
    /\ vm.base = last.throw.ehandler
    /\ Len(vm.trace) > last.pre.ntrace
    /\ vm.trace[Len(vm.trace)] = last.throw.ehandler

(* The record of the error the running code raises: `outer' is the      *)
(* escape point whose handler raises it, and `started' has the head of  *)
(* the floating chain when the error of each escape point was raised.   *)
RaisedIn(v, outer, started) ==
    IF v.escapePoint # NULL THEN UnwindRecord(v, outer, started)
    ELSE [ ep |-> NULL, outer |-> outer, started |-> started,
           ntrace |-> Len(v.trace),
           cstack |-> v.cstack,
           all |-> LET ps == SchemeAfter(v, CellsBefore(v, v.handlers, SCM_NIL))
                   IN  [j \in DOMAIN ps |-> SCM_CDR(v, SCM_CAR(v, ps[j]))] ]

Raised(v) ==
    RaisedIn(v,
             IF HandlerRunning THEN last.throw.uep ELSE NULL,
             IF "started" \in DOMAIN last.throw THEN last.throw.started ELSE {})

(* What the instruction about to run will change in the dynamic context. *)
TopCC(v) ==
    IF v.cont # NULL /\ CGet(v, v.cont, "argp") = NULL THEN CGet(v, v.cont, "pc")
    ELSE NULL

Context(v) ==
    [ handlers |-> v.handlers, ntrace |-> Len(v.trace), base |-> v.base,
      after |-> TopCC(v), cont |-> v.cont ]

NoThrow == [ ep |-> NULL ]

InitCtl ==
    /\ \E p \in CtlPrefixes :
          Started(RunPair(<< Scm__InitVM(StackSize), Scm__InitVM(StackSize) >>, p))
    /\ nsteps = 0
    /\ last = [ i |-> [k |-> "init"], pre |-> Context(Scm__InitVM(StackSize)),
                throw |-> NoThrow, body |-> <<>> ]

CtlRunning ==
    /\ nsteps < MaxCtlSteps
    /\ ~Halted(vm)

(* Scheme code other than the thunks of a dynamic-wind is running. *)
CtlCode ==
    /\ CtlRunning
    /\ vm.next.op = "scheme"
    /\ ~(IsWindThunk(vm.base) /\ ThunkRole(vm.base) \in {1, 3})

(* The values in the value registers of the VM. *)
ValuesOf(v) ==
    IF v.numVals = 0 THEN <<>>
    ELSE << v.val0 >> \o [j \in 1..(v.numVals - 1) |-> v.vals[j]]

(* The values the body of a dynamic-wind returned, when the step to v   *)
(* made it return, that is, when dynwind_body_cc has called the         *)
(* after-thunk: the values of the instruction when it returns values,   *)
(* the values of the form whose after-thunk returned when that form was *)
(* in tail position in the body, and otherwise (a reinstated            *)
(* continuation returns) those in the registers.  In other steps, the   *)
(* values of the last body that returned.                               *)
BodyValues(v, i) ==
    IF /\ ~Halted(v) /\ v.next.op = "scheme"
       /\ IsWindThunk(v.base) /\ ThunkRole(v.base) = 3
       /\ TopCC(v) = dynwind_after_cc_addr
    THEN IF TopCC(vm) = dynwind_after_cc_addr THEN last.body
         ELSE IF i.k = "values" THEN i.args
         ELSE ValuesOf(vm)
    ELSE last.body

(* Whether the next host frame lands on the address of a dead record:  *)
(* both can happen when there is one, and it matters only when an       *)
(* escape point still points to it.                                     *)
Reuses(v) ==
    IF \E ep \in DOMAIN v.eps : v.eps[ep].cstack \in DeadCStacks(v)
    THEN BOOLEAN ELSE {FALSE}

(* The escape point of the last error has been reached. *)
Caught(v) == \E j \in DOMAIN v.events : v.events[j].did = "caught"

(* The record of an error is kept until its escape point is reached. *)
Carried ==
    IF "started" \in DOMAIN last.throw /\ Caught(vm) THEN NoThrow ELSE last.throw

CtlStepped(v, i, throw) ==
    /\ vm' = v
    /\ nsteps' = nsteps + 1
    /\ last' = [ i |-> i, pre |-> Context(vm), throw |-> throw, body |-> BodyValues(v, i) ]
    /\ UNCHANGED << ref, threads, port >>

(* The host program applies a procedure: Scm_Apply. *)
CtlHostApply ==
    /\ CtlRunning
    /\ vm.next.op = "host"
    /\ Len(vm.cstk) < MaxCStack
    /\ \E r \in Reuses(vm) :
          CtlStepped(Exec(vm, [k |-> "apply_rec", proc |-> FreshProc, reuse |-> r]),
                     [k |-> "apply_rec", reuse |-> r], NoThrow)

(* Native code called from Scheme applies a procedure: Scm_Apply. *)
CtlApplyRec ==
    /\ CtlCode
    /\ Len(vm.cstk) < MaxCStack
    /\ \E r \in Reuses(vm) :
          CtlStepped(Exec(vm, [k |-> "apply_rec", proc |-> FreshProc, reuse |-> r]),
                     [k |-> "apply_rec", reuse |-> r], NoThrow)

(* The running procedure returns n values: (values ...) and RET. *)
CtlValues ==
    /\ CtlRunning
    /\ vm.next.op = "scheme"
    /\ \E n \in ValueCounts :
          CtlStepped(Exec(vm, [k |-> "values", args |-> ValueArgs(n)]),
                     [k |-> "values", args |-> ValueArgs(n)], Carried)

(* (dynamic-wind before body after) in tail position *)
CtlDynamicWind ==
    /\ CtlCode
    /\ WindCount(vm) < MaxWinds
    /\ CtlStepped(Exec(vm, [k |-> "dynamic_wind"]),
                  [k |-> "dynamic_wind", wind |-> WindCount(vm) + 1], NoThrow)

(* (call/cc proc) in tail position *)
CtlCallCC ==
    /\ CtlCode
    /\ Len(vm.eps) < MaxEps
    /\ CtlStepped(Exec(vm, [k |-> "callcc", proc |-> FreshProc]),
                  [k |-> "callcc", ep |-> Len(vm.eps) + 1], NoThrow)

(* (call/pc proc) in tail position *)
CtlCallPC ==
    /\ CtlCode
    /\ Len(vm.eps) < MaxEps
    /\ CtlStepped(Exec(vm, [k |-> "callpc", proc |-> FreshProc]),
                  [k |-> "callpc", ep |-> Len(vm.eps) + 1], NoThrow)

(* A continuation procedure is called with n arguments, in tail position. *)
CtlThrow ==
    /\ CtlCode
    /\ \E ep \in DOMAIN vm.eps, n \in ThrowCounts :
          /\ vm.eps[ep].ehandler = SCM_FALSE           \* made by Scm_VMCallCC
          /\ CtlStepped(Exec(vm, [k |-> "throw", ep |-> ep, args |-> ThrowArgs(n)]),
                        [k |-> "throw", ep |-> ep, args |-> ThrowArgs(n)],
                        ThrowRecord(vm, ep, ThrowArgs(n)))

(* run_loop fetches the RET after the call of a continuation procedure. *)
CtlResume ==
    /\ CtlRunning
    /\ vm.next.op = "reinstated"
    /\ CtlStepped(Exec(vm, [k |-> "resume"]), [k |-> "resume"], last.throw)

(* The continuation frame of a call that is not in tail position. *)
CtlPushCont ==
    /\ CtlCode
    /\ last.i.k # "push_cont"
    /\ CtlStepped(Exec(vm, [k |-> "push_cont", pc |-> FreshPc]),
                  [k |-> "push_cont"], NoThrow)

(* (with-error-handler handler thunk) in tail position *)
CtlWithErrorHandler ==
    /\ CtlCode
    /\ Len(vm.eps) < MaxEps
    /\ CtlStepped(Exec(vm, [k |-> "with_error_handler", handler |-> FreshProc + 1,
                            proc |-> FreshProc]),
                  [k |-> "with_error_handler"], NoThrow)

(* (with-guard-handler handler thunk) in tail position: the handler of *)
(* a guard form                                                         *)
CtlWithGuardHandler ==
    /\ CtlCode
    /\ Len(vm.eps) < MaxEps
    /\ CtlStepped(Exec(vm, [k |-> "with_guard_handler", handler |-> FreshProc + 1,
                            proc |-> FreshProc]),
                  [k |-> "with_guard_handler"], NoThrow)

(* The record of a condition raised when an exception handler other    *)
(* than the default one is installed.                                   *)
RaiseRecord(v, cond) ==
    [ ep |-> NULL, xh |-> v.exceptionHandler, cond |-> cond,
      ntrace |-> Len(v.trace), base |-> v.base, pc |-> v.pc,
      cstack |-> v.cstack, frame |-> v.nframes + 1 ]

RaisedCondition(v, cond) ==
    IF v.exceptionHandler # DEFAULT_EXCEPTION_HANDLER THEN RaiseRecord(v, cond)
    ELSE Raised(v)

(* An error is raised: Scm_Error. *)
CtlError ==
    /\ CtlCode
    /\ Len(vm.cstk) < MaxErrCStack
    /\ \E r \in Reuses(vm) :
          CtlStepped(Exec(vm, [k |-> "error", reuse |-> r]),
                     [k |-> "error", reuse |-> r],
                     RaisedCondition(vm, ErrorCondition))

(* The host program calls Scm_Apply. *)
CtlSafeApply ==
    /\ CtlRunning
    /\ vm.next.op = "host"
    /\ Len(vm.cstk) < MaxCStack
    /\ Len(vm.eps) < MaxEps
    /\ \E r \in Reuses(vm) :
          CtlStepped(Exec(vm, [k |-> "safe_apply", proc |-> FreshProc, reuse |-> r]),
                     [k |-> "safe_apply", reuse |-> r], NoThrow)

(* Native code called from Scheme calls Scm_Apply. *)
CtlSafeApplyRec ==
    /\ CtlCode
    /\ Len(vm.cstk) < MaxCStack
    /\ Len(vm.eps) < MaxEps
    /\ \E r \in Reuses(vm) :
          CtlStepped(Exec(vm, [k |-> "safe_apply", proc |-> FreshProc, reuse |-> r]),
                     [k |-> "safe_apply", reuse |-> r], NoThrow)

(* The host program raises an error while no Scheme code runs. *)
CtlHostError ==
    /\ CtlRunning
    /\ vm.next.op = "host"
    /\ CtlStepped(Exec(vm, [k |-> "error"]), [k |-> "hosterror"], Raised(vm))

(* A continuable condition is raised: (raise c) *)
CtlRaise ==
    /\ CtlCode
    /\ Len(vm.cstk) < MaxErrCStack
    /\ CtlStepped(Exec(vm, [k |-> "raise", cond |-> WarningCondition]),
                  [k |-> "raise"], RaisedCondition(vm, WarningCondition))

(* (with-exception-handler handler thunk) in tail position *)
CtlWithExceptionHandler ==
    /\ CtlCode
    /\ WindCount(vm) + Len(vm.eps) < MaxEps
    /\ CtlStepped(Exec(vm, [k |-> "with_exception_handler", handler |-> FreshProc + 1,
                            proc |-> FreshProc]),
                  [k |-> "with_exception_handler"], NoThrow)

NextCtl ==
    \/ CtlHostApply
    \/ CtlApplyRec
    \/ CtlValues
    \/ CtlDynamicWind
    \/ CtlCallCC
    \/ CtlThrow
    \/ CtlResume
    \/ CtlPushCont
    \/ CtlWithErrorHandler
    \/ CtlError

SpecCtl == InitCtl /\ [][NextCtl]_vars

----------------------------------------------------------------------------
(* The runs with partial continuations: procedures are applied, frames   *)
(* are pushed, full and partial continuations are captured and called.   *)

PCPrefixes ==
    { \* the host has applied a procedure
      << [k |-> "apply_rec", proc |-> 500] >>,
      \* a call that is not in tail position
      << [k |-> "apply_rec", proc |-> 500],
         [k |-> "push_cont", pc |-> 501] >>,
      \* a partial continuation of one frame has been captured
      << [k |-> "apply_rec", proc |-> 500],
         [k |-> "push_cont", pc |-> 501],
         [k |-> "callpc", proc |-> 502] >>,
      \* the same in native code called from Scheme
      << [k |-> "apply_rec", proc |-> 500],
         [k |-> "push_cont", pc |-> 503],
         [k |-> "apply_rec", proc |-> 504],
         [k |-> "push_cont", pc |-> 501],
         [k |-> "callpc", proc |-> 502] >> }

InitPC ==
    /\ \E p \in PCPrefixes :
          Started(RunPair(<< Scm__InitVM(StackSize), Scm__InitVM(StackSize) >>, p))
    /\ nsteps = 0
    /\ last = [ i |-> [k |-> "init"], pre |-> Context(Scm__InitVM(StackSize)),
                throw |-> NoThrow, body |-> <<>> ]

NextPC ==
    \/ CtlHostApply
    \/ CtlApplyRec
    \/ CtlValues
    \/ CtlCallCC
    \/ CtlCallPC
    \/ CtlThrow
    \/ CtlResume
    \/ CtlPushCont

SpecPC == InitPC /\ [][NextPC]_vars

----------------------------------------------------------------------------
(* The runs with errors: escape points with either kind of handler,     *)
(* dynamic-winds, and errors raised in bodies, thunks and handlers.     *)

ErrPrefixes ==
    { \* the host has applied a procedure
      << [k |-> "apply_rec", proc |-> 500] >>,
      \* the body of a dynamic-wind in the body of another, in the body
      \* of with-error-handler
      << [k |-> "apply_rec", proc |-> 500],
         [k |-> "push_cont", pc |-> 501],
         [k |-> "with_error_handler", handler |-> 520, proc |-> 521],
         [k |-> "dynamic_wind"],
         [k |-> "values", args |-> <<81>>],
         [k |-> "dynamic_wind"],
         [k |-> "values", args |-> <<81>>] >>,
      \* the same in the body of a guard
      << [k |-> "apply_rec", proc |-> 500],
         [k |-> "push_cont", pc |-> 501],
         [k |-> "with_guard_handler", handler |-> 520, proc |-> 521],
         [k |-> "dynamic_wind"],
         [k |-> "values", args |-> <<81>>],
         [k |-> "dynamic_wind"],
         [k |-> "values", args |-> <<81>>] >>,
      \* with-error-handler in the body of a dynamic-wind
      << [k |-> "apply_rec", proc |-> 500],
         [k |-> "dynamic_wind"],
         [k |-> "values", args |-> <<81>>],
         [k |-> "push_cont", pc |-> 501],
         [k |-> "with_error_handler", handler |-> 520, proc |-> 521] >>,
      \* a guard in the body of with-error-handler
      << [k |-> "apply_rec", proc |-> 500],
         [k |-> "push_cont", pc |-> 501],
         [k |-> "with_error_handler", handler |-> 520, proc |-> 521],
         [k |-> "push_cont", pc |-> 502],
         [k |-> "with_guard_handler", handler |-> 530, proc |-> 531] >> }

InitErr ==
    /\ \E p \in ErrPrefixes :
          Started(RunPair(<< Scm__InitVM(StackSize), Scm__InitVM(StackSize) >>, p))
    /\ nsteps = 0
    /\ last = [ i |-> [k |-> "init"], pre |-> Context(Scm__InitVM(StackSize)),
                throw |-> NoThrow, body |-> <<>> ]

NextErr ==
    \/ CtlHostApply
    \/ CtlApplyRec
    \/ CtlValues
    \/ CtlDynamicWind
    \/ CtlPushCont
    \/ CtlWithErrorHandler
    \/ CtlWithGuardHandler
    \/ CtlError

SpecErr == InitErr /\ [][NextErr]_vars

----------------------------------------------------------------------------
(* The runs with multiple values: procedures return lists of values of  *)
(* every length up to one more than the cap, continuations are called   *)
(* with as many, and native code and the host program read and set the  *)
(* result.                                                              *)

ValueItems == {81, 82}

(* Lists of distinct values, in two orders. *)
ValueLists ==
    UNION { { ValueArgs(n), [j \in 1..n |-> 80 + (n + 1 - j)] } :
            n \in 0..(SCM_VM_MAX_VALUES + 1) }

ValPrefixes ==
    { \* the host has applied a procedure
      << [k |-> "apply_rec", proc |-> 500] >>,
      \* a call that is not in tail position
      << [k |-> "apply_rec", proc |-> 500],
         [k |-> "push_cont", pc |-> 501],
         [k |-> "apply", proc |-> 502, args |-> <<>>] >>,
      \* the receiver of call/cc
      << [k |-> "apply_rec", proc |-> 500],
         [k |-> "push_cont", pc |-> 501],
         [k |-> "callcc", proc |-> 502] >> }

InitVal ==
    /\ \E p \in ValPrefixes :
          Started(RunPair(<< Scm__InitVM(StackSize), Scm__InitVM(StackSize) >>, p))
    /\ nsteps = 0
    /\ last = [ i |-> [k |-> "init"], pre |-> Context(Scm__InitVM(StackSize)),
                throw |-> NoThrow, body |-> <<>> ]

(* The running procedure returns a list of values: (apply values l) *)
ValValues ==
    /\ CtlRunning
    /\ vm.next.op = "scheme"
    /\ \E l \in ValueLists :
          CtlStepped(Exec(vm, [k |-> "values", args |-> l]),
                     [k |-> "values", args |-> l], NoThrow)

(* Scm_VMGetResult, called by the host program or by native code. *)
ValGetResult ==
    /\ CtlRunning
    /\ vm.next.op \in {"host", "scheme"}
    /\ last.i.k # "get_result"
    /\ CtlStepped(Exec(vm, [k |-> "get_result"]),
                  [k |-> "get_result", producer |-> last.i], NoThrow)

(* Scm_VMSetResult, called by the host program or by native code. *)
ValSetResult ==
    /\ CtlRunning
    /\ vm.next.op \in {"host", "scheme"}
    /\ last.i.k # "set_result"
    /\ \E obj \in ValueItems :
          CtlStepped(Exec(vm, [k |-> "set_result", obj |-> obj]),
                     [k |-> "set_result", obj |-> obj], NoThrow)

(* A continuation procedure is called with a list of values. *)
ValThrow ==
    /\ CtlCode
    /\ \E ep \in DOMAIN vm.eps, n \in 0..(SCM_VM_MAX_VALUES + 1) :
          /\ vm.eps[ep].ehandler = SCM_FALSE
          /\ CtlStepped(Exec(vm, [k |-> "throw", ep |-> ep, args |-> ThrowArgs(n)]),
                        [k |-> "throw", ep |-> ep, args |-> ThrowArgs(n)],
                        ThrowRecord(vm, ep, ThrowArgs(n)))

NextVal ==
    \/ CtlHostApply
    \/ ValValues
    \/ ValGetResult
    \/ ValSetResult
    \/ ValThrow
    \/ CtlResume
    \/ CtlCallCC
    \/ CtlPushCont

SpecVal == InitVal /\ [][NextVal]_vars

----------------------------------------------------------------------------
(* The runs with queued requests: signals, finalizers and stop requests  *)
(* arrive between the instructions of a program; the handlers are Scheme *)
(* procedures that return values, push frames and promote the stack; a   *)
(* controller thread requests a stop, cancels it, or resumes the VM.     *)

MaxAttSteps == 3     \* instructions per run, after the run's prefix
MaxRequests == 2     \* requests made in one run

AttPrefixes ==
    { \* the host has applied a procedure
      << [k |-> "apply_rec", proc |-> 500] >>,
      \* a procedure called with a continuation frame, which returns to it
      << [k |-> "apply_rec", proc |-> 500],
         [k |-> "push_cont", pc |-> 501],
         [k |-> "apply", proc |-> 502, args |-> <<>>] >>,
      \* an argument block under construction, in a local environment
      << [k |-> "apply_rec", proc |-> 500],
         [k |-> "let"],
         [k |-> "push", args |-> << 41, 42 >>] >> }

InitAtt ==
    /\ \E p \in AttPrefixes :
          /\ vm = RunPair(<< Scm__InitVM(StackSize), Scm__InitVM(StackSize) >>, p)[1]
          /\ ref = RunPair(<< Scm__InitVM(StackSize), Scm__InitVM(StackSize) >>, p)[2]
    /\ nsteps = 0
    /\ last = [ i |-> [k |-> "init"], pre |-> Context(Scm__InitVM(StackSize)),
                throw |-> NoThrow, body |-> <<>> ]
    /\ threads = [ controller |-> "idle", nrequests |-> 0 ]
    /\ port = Scm_MakePort

AttRunning == nsteps < MaxAttSteps /\ ~Halted(vm)

(* The interpreter is at an instruction boundary with a request to see. *)
AttentionSeen(v) == v.next.op = "scheme" /\ v.attentionRequest

(* run_loop goes on: the queue is processed, or the instruction i is    *)
(* executed.                                                            *)
AttStep(i) ==
    CtlStepped(Exec(vm, i),
               IF AttentionSeen(vm) THEN [k |-> "process_queue"] ELSE i,
               NoThrow)

AttHostApply ==
    /\ AttRunning
    /\ vm.next.op = "host"
    /\ Len(vm.cstk) < MaxCStack
    /\ AttStep([k |-> "apply_rec", proc |-> FreshProc])

AttValues ==
    /\ AttRunning
    /\ vm.next.op = "scheme"
    /\ \E n \in ValueCounts : AttStep([k |-> "values", args |-> ValueArgs(n)])

AttPushCont ==
    /\ AttRunning
    /\ vm.next.op = "scheme"
    /\ last.i.k # "push_cont"
    /\ AttStep([k |-> "push_cont", pc |-> FreshPc])

AttSaveStack ==
    /\ AttRunning
    /\ vm.next.op = "scheme"
    /\ last.i.k # "save_stack"
    /\ AttStep([k |-> "save_stack"])

(* A thread of the process other than the VM's, or the VM's thread in   *)
(* native code, takes a step.                                           *)
AttThread(v, i, t) ==
    /\ vm' = v
    /\ last' = [last EXCEPT !.i = i]
    /\ threads' = t
    /\ UNCHANGED << ref, nsteps, port >>

Requested == [threads EXCEPT !.nrequests = @ + 1]

(* A signal is delivered and queued. *)
AttSignal ==
    /\ ~Halted(vm)
    /\ threads.nrequests < MaxRequests
    /\ ~vm.signalPending
    /\ AttThread([vm EXCEPT !.signalPending = TRUE, !.attentionRequest = TRUE],
                 [k |-> "signal"], Requested)

(* The collector finds objects to finalize. *)
AttFinalizer ==
    /\ ~Halted(vm)
    /\ threads.nrequests < MaxRequests
    /\ ~vm.finalizerPending
    /\ AttThread([vm EXCEPT !.finalizerPending = TRUE, !.attentionRequest = TRUE],
                 [k |-> "finalizer"], Requested)

(* The controller asks the VM to stop, and waits on vm->cond. *)
AttStopRequest ==
    /\ ~Halted(vm)
    /\ threads.nrequests < MaxRequests
    /\ threads.controller = "idle"
    /\ vm.state = "RUNNABLE"
    /\ vm.vmlock = "unlocked"
    /\ AttThread([vm EXCEPT !.stopRequest = TRUE, !.attentionRequest = TRUE,
                            !.cond = @ \cup {"controller"}],
                 [k |-> "stop_request"],
                 [Requested EXCEPT !.controller = "requested"])

(* The controller's wait times out: the request is cancelled. *)
AttStopCancel ==
    /\ threads.controller = "requested"
    /\ vm.stopRequest
    /\ AttThread([vm EXCEPT !.stopRequest = FALSE, !.cond = @ \ {"controller"}],
                 [k |-> "stop_cancel"],
                 [threads EXCEPT !.controller = "idle"])

(* The controller's wait returns with vm->vmlock locked: the VM has     *)
(* stopped, ...                                                         *)
AttControllerLock ==
    /\ threads.controller = "requested"
    /\ "controller" \notin vm.cond
    /\ vm.vmlock = "unlocked"
    /\ AttThread([vm EXCEPT !.vmlock = "controller"], [k |-> "controller_lock"],
                 [threads EXCEPT !.controller = "locked"])

(* ... the controller changes the state and broadcasts vm->cond, ...    *)
AttControllerResume ==
    /\ threads.controller = "locked"
    /\ AttThread([vm EXCEPT !.state = "RUNNABLE", !.cond = {}],
                 [k |-> "controller_resume"],
                 [threads EXCEPT !.controller = "resumed"])

(* ... and unlocks vm->vmlock.                                          *)
AttControllerUnlock ==
    /\ threads.controller = "resumed"
    /\ AttThread([vm EXCEPT !.vmlock = "unlocked"], [k |-> "controller_unlock"],
                 [threads EXCEPT !.controller = "idle"])

(* The VM's thread, in process_queued_requests, locks vm->vmlock, ...   *)
AttStopLock ==
    /\ ~Halted(vm)
    /\ vm.next.op = "stop_lock"
    /\ vm.vmlock = "unlocked"
    /\ AttThread(stop_lock([vm EXCEPT !.events = <<>>]), [k |-> "stop_lock"], threads)

(* ... tests vm->stopRequest again, and stops or goes on, ...           *)
AttStopCheck ==
    /\ ~Halted(vm)
    /\ vm.next.op = "stop_locked"
    /\ AttThread(Call("Go", stop_check([vm EXCEPT !.events = <<>>]), <<>>),
                 [k |-> "stop_check"],
                 threads)

(* ... wakes up from its wait on vm->cond, ...                          *)
AttStopWake ==
    /\ ~Halted(vm)
    /\ vm.next.op = "stop_wait"
    /\ "vm" \notin vm.cond
    /\ vm.vmlock = "unlocked"
    /\ AttThread(stop_wake(vm), [k |-> "stop_wake"], threads)

(* ... and unlocks vm->vmlock.                                          *)
AttStopUnlock ==
    /\ ~Halted(vm)
    /\ vm.next.op = "stop_woken"
    /\ AttThread(stop_unlock(vm), [k |-> "stop_unlock"], threads)

(* run_loop goes on after the stop. *)
AttStopReturn ==
    /\ ~Halted(vm)
    /\ vm.next.op = "stop_return"
    /\ AttThread(Call("Go", stop_return([vm EXCEPT !.events = <<>>]), <<>>),
                 [k |-> "stop_return"],
                 threads)

NextAtt ==
    \/ AttHostApply
    \/ AttValues
    \/ AttPushCont
    \/ AttSaveStack
    \/ AttSignal
    \/ AttFinalizer
    \/ AttStopRequest
    \/ AttStopCancel
    \/ AttControllerLock
    \/ AttControllerResume
    \/ AttControllerUnlock
    \/ AttStopLock
    \/ AttStopCheck
    \/ AttStopWake
    \/ AttStopUnlock
    \/ AttStopReturn

SpecAtt == InitAtt /\ [][NextAtt]_vars

(* The runs in which the VM is stopped: fewer instructions, and the     *)
(* threads are scheduled, a thread that can take a step does.           *)
MaxStopSteps == 2

StopValues == nsteps < MaxStopSteps /\ AttValues

StopSignal == nsteps < MaxStopSteps /\ AttSignal

NextStop ==
    \/ StopValues
    \/ StopSignal
    \/ AttStopRequest
    \/ AttStopCancel
    \/ AttControllerLock
    \/ AttControllerResume
    \/ AttControllerUnlock
    \/ AttStopLock
    \/ AttStopCheck
    \/ AttStopWake
    \/ AttStopUnlock
    \/ AttStopReturn

SpecStop ==
    /\ InitAtt
    /\ [][NextStop]_vars
    /\ WF_vars(AttStopWake)
    /\ WF_vars(AttStopUnlock)
    /\ WF_vars(AttControllerUnlock)

----------------------------------------------------------------------------
(* The runs with requests that arrive while the queue is processed: a   *)
(* step of the VM's thread in process_queued_requests is one access to  *)
(* a flag that other threads write, and a thread that queues a request  *)
(* sets the flag of the request first and vm->attentionRequest next.    *)

ExecToAccess(v, i) == Call("ExecToAccess", v, i)

InitQueue ==
    /\ \E p \in AttPrefixes :
          /\ vm = RunPair(<< Scm__InitVM(StackSize), Scm__InitVM(StackSize) >>, p)[1]
          /\ ref = RunPair(<< Scm__InitVM(StackSize), Scm__InitVM(StackSize) >>, p)[2]
    /\ nsteps = 0
    /\ last = [ i |-> [k |-> "init"], pre |-> Context(Scm__InitVM(StackSize)),
                throw |-> NoThrow, body |-> <<>> ]
    /\ threads = [ controller |-> "idle", nrequests |-> 0,
                   signal |-> "idle", finalizer |-> "idle" ]
    /\ port = Scm_MakePort

(* run_loop goes on with the instruction i, or with the queue. *)
QueueStep(i) ==
    CtlStepped(ExecToAccess(vm, i),
               IF AttentionSeen(vm) THEN [k |-> "process_queue"] ELSE i,
               NoThrow)

QueueHostApply ==
    /\ AttRunning
    /\ vm.next.op = "host"
    /\ Len(vm.cstk) < MaxCStack
    /\ QueueStep([k |-> "apply_rec", proc |-> FreshProc])

QueueValues ==
    /\ AttRunning
    /\ vm.next.op = "scheme"
    /\ QueueStep([k |-> "values", args |-> ValueArgs(1)])

(* The VM's thread clears attentionRequest, or tests a flag and does    *)
(* what it finds.                                                       *)
QueueAccess ==
    /\ ~Halted(vm)
    /\ vm.next.op \in QueueAccesses
    /\ AttThread(Call("GoToAccess", Call("Dispatch", vm, <<>>), <<>>),
                 [k |-> vm.next.op], threads)

(* A signal is delivered: it is queued, with signalPending set, ...     *)
QueueSignalPending ==
    /\ ~Halted(vm)
    /\ threads.nrequests < MaxRequests
    /\ threads.signal = "idle"
    /\ ~vm.signalPending
    /\ AttThread([vm EXCEPT !.signalPending = TRUE], [k |-> "signal"],
                 [Requested EXCEPT !.signal = "queued"])

(* ... and the VM's attention is asked for.                             *)
QueueSignalAttention ==
    /\ threads.signal = "queued"
    /\ AttThread([vm EXCEPT !.attentionRequest = TRUE], [k |-> "signal_attention"],
                 [threads EXCEPT !.signal = "idle"])

(* The collector finds objects to finalize, ...                         *)
QueueFinalizerPending ==
    /\ ~Halted(vm)
    /\ threads.nrequests < MaxRequests
    /\ threads.finalizer = "idle"
    /\ ~vm.finalizerPending
    /\ AttThread([vm EXCEPT !.finalizerPending = TRUE], [k |-> "finalizer"],
                 [Requested EXCEPT !.finalizer = "queued"])

(* ... and asks for the VM's attention.                                 *)
QueueFinalizerAttention ==
    /\ threads.finalizer = "queued"
    /\ AttThread([vm EXCEPT !.attentionRequest = TRUE], [k |-> "finalizer_attention"],
                 [threads EXCEPT !.finalizer = "idle"])

(* The controller, with vm->vmlock locked, asks the VM to stop, ...     *)
QueueStopPending ==
    /\ ~Halted(vm)
    /\ threads.nrequests < MaxRequests
    /\ threads.controller = "idle"
    /\ vm.state = "RUNNABLE"
    /\ vm.vmlock = "unlocked"
    /\ AttThread([vm EXCEPT !.stopRequest = TRUE, !.vmlock = "controller"],
                 [k |-> "stop_request"],
                 [Requested EXCEPT !.controller = "requesting"])

(* ... asks for its attention, and waits on vm->cond.                   *)
QueueStopAttention ==
    /\ threads.controller = "requesting"
    /\ AttThread([vm EXCEPT !.attentionRequest = TRUE, !.vmlock = "unlocked",
                            !.cond = @ \cup {"controller"}],
                 [k |-> "stop_attention"],
                 [threads EXCEPT !.controller = "requested"])

(* The VM's thread tests vm->stopRequest again, with the lock. *)
QueueStopCheck ==
    /\ ~Halted(vm)
    /\ vm.next.op = "stop_locked"
    /\ AttThread(Call("GoToAccess", stop_check([vm EXCEPT !.events = <<>>]), <<>>),
                 [k |-> "stop_check"], threads)

(* run_loop goes on after the stop. *)
QueueStopReturn ==
    /\ ~Halted(vm)
    /\ vm.next.op = "stop_return"
    /\ AttThread(Call("GoToAccess", stop_return([vm EXCEPT !.events = <<>>]), <<>>),
                 [k |-> "stop_return"], threads)

NextQueue ==
    \/ QueueHostApply
    \/ QueueValues
    \/ QueueAccess
    \/ QueueSignalPending
    \/ QueueSignalAttention
    \/ QueueFinalizerPending
    \/ QueueFinalizerAttention
    \/ QueueStopPending
    \/ QueueStopAttention
    \/ AttControllerLock
    \/ AttControllerResume
    \/ AttControllerUnlock
    \/ AttStopLock
    \/ QueueStopCheck
    \/ AttStopWake
    \/ AttStopUnlock
    \/ QueueStopReturn

SpecQueue == InitQueue /\ [][NextQueue]_vars

----------------------------------------------------------------------------
(* The port runs: the VMs lock and unlock the port, and a thread may end *)
(* with the port locked.                                                 *)

InitPort ==
    /\ vm = Scm__InitVM(StackSize)
    /\ ref = Scm__InitVM(StackSize)
    /\ nsteps = 0
    /\ last = [ i |-> [k |-> "init"] ]
    /\ port = Scm_MakePort
    /\ threads = [t \in Instances |->
                     [ pc |-> "idle", owner__ |-> NULL, state |-> "RUNNABLE",
                       locks |-> 0 ]]

(* The thread t has taken the step i of the call `call'. *)
PortStepped(s, t, call) ==
    /\ port' = s.port
    /\ threads' = s.threads
    /\ last' = [ i |-> [k |-> call, at |-> threads[t].pc, vm |-> t] ]
    /\ UNCHANGED << vm, ref, nsteps >>

Live(t) == threads[t].state # "TERMINATED"

(* The VM t calls PORT_LOCK(p, vm). *)
PortCallLock ==
    \E t \in Instances :
        /\ Live(t)
        /\ threads[t].pc = "idle"
        /\ threads[t].locks < MaxLockCount
        /\ PortStepped([ port |-> port,
                         threads |-> [threads EXCEPT ![t].pc = "PORT_LOCK"] ],
                       t, "call")

(* The VM t, which has locked the port, calls PORT_UNLOCK(p). *)
PortCallUnlock ==
    \E t \in Instances :
        /\ Live(t)
        /\ threads[t].pc = "idle"
        /\ threads[t].locks > 0
        /\ PortStepped([ port |-> port,
                         threads |-> [threads EXCEPT ![t].pc = "PORT_UNLOCK"] ],
                       t, "call")

(* The thread of the VM t takes a step of PORT_LOCK. *)
PortLockBy(t) ==
    /\ Live(t)
    /\ threads[t].pc \in PortLockSteps
    /\ \E s \in PORT_LOCK(port, threads, t) : PortStepped(s, t, "PORT_LOCK")

PortLock == \E t \in Instances : PortLockBy(t)

PortUnlock ==
    \E t \in Instances :
        /\ Live(t)
        /\ threads[t].pc \in PortUnlockSteps
        /\ \E s \in PORT_UNLOCK(port, threads, t) : PortStepped(s, t, "PORT_UNLOCK")

(* The thread of the VM t ends, with the port locked or not. *)
PortTerminate ==
    \E t \in Instances :
        /\ Live(t)
        /\ threads[t].pc = "idle"
        /\ \E u \in Instances : u # t /\ Live(u)
        /\ PortStepped([ port |-> port,
                         threads |-> [threads EXCEPT ![t].state = "TERMINATED"] ],
                       t, "terminate")

NextPort ==
    \/ PortCallLock
    \/ PortCallUnlock
    \/ PortLock
    \/ PortUnlock
    \/ PortTerminate

SpecPort == InitPort /\ [][NextPort]_vars

(* The runs of a port that may be private: it is made unlocked, or      *)
(* locked by the first VM with PORT_PRELOCK.  A thread that is in       *)
(* PORT_LOCK is scheduled again and again: Scm_YieldCPU gives the       *)
(* processor to the others, and the fastlock is held for a few          *)
(* instructions only.                                                   *)
InitDead ==
    /\ vm = Scm__InitVM(StackSize)
    /\ ref = Scm__InitVM(StackSize)
    /\ nsteps = 0
    /\ last = [ i |-> [k |-> "init"] ]
    /\ \E prelocked \in BOOLEAN :
          /\ port = IF prelocked THEN PORT_PRELOCK(Scm_MakePort, 1) ELSE Scm_MakePort
          /\ threads = [t \in Instances |->
                           [ pc |-> "idle", owner__ |-> NULL, state |-> "RUNNABLE",
                             locks |-> IF prelocked /\ t = 1 THEN 1 ELSE 0 ]]

SpecDead ==
    /\ InitDead
    /\ [][NextPort]_vars
    /\ \A t \in Instances : WF_vars(PortLockBy(t))

----------------------------------------------------------------------------
(* The runs of Scm_AttachVM: OS threads attach the two VMs `vm' and     *)
(* `ref' to themselves, each call in steps that interleave with the     *)
(* steps of the other threads.                                          *)

NumThreads == 3
OsThreads == 1..NumThreads
AttachSteps ==
    { "Scm_AttachVM", "theVM != NULL", "pthread_setspecific",
      "thread = pthread_self", "state = RUNNABLE" }

(* The VM objects, by index. *)
VMs == << vm, ref >>

(* Two VMs that Scm_NewVM has made; the second one is new too, or is    *)
(* the VM of the primordial thread, the thread 1.                       *)
InitAttach ==
    /\ vm = Scm_NewVM(StackSize)
    /\ ref \in { Scm_NewVM(StackSize), Scm__InitVM(StackSize) }
    /\ threads = [t \in OsThreads |->
                     [ pc |-> "idle", arg |-> NULL, ret |-> FALSE, calls |-> 0,
                       theVM |-> IF t = ref.thread THEN 2 ELSE NULL ]]
    /\ nsteps = 0
    /\ last = [ i |-> [k |-> "init"] ]
    /\ port = Scm_MakePort

(* The thread t has taken a step; `pre' keeps what the thread and the   *)
(* VM of the call were before it.                                       *)
AttachStepped(v, th, t, a) ==
    /\ vm' = IF a = 1 THEN v ELSE vm
    /\ ref' = IF a = 2 THEN v ELSE ref
    /\ threads' = [threads EXCEPT ![t] = th]
    /\ last' = [ i |-> [k |-> "attach", at |-> threads[t].pc, thread |-> t, vm |-> a],
                 pre |-> [ th |-> threads[t], thread |-> VMs[a].thread,
                           state |-> VMs[a].state ] ]
    /\ UNCHANGED << nsteps, port >>

(* The thread t calls Scm_AttachVM on one of the VMs. *)
AttachCall ==
    \E t \in OsThreads, a \in DOMAIN VMs :
        /\ threads[t].pc = "idle"
        /\ threads[t].calls < MaxAttachCalls
        /\ AttachStepped(VMs[a],
                         [threads[t] EXCEPT !.pc = "Scm_AttachVM", !.arg = a,
                                            !.calls = @ + 1],
                         t, a)

(* The thread t takes the next step of its call of Scm_AttachVM. *)
AttachStep ==
    \E t \in OsThreads :
        /\ threads[t].pc \in AttachSteps
        /\ \E s \in Scm_AttachVM(VMs[threads[t].arg], threads[t], t) :
              AttachStepped(s.v, s.th, t, threads[t].arg)

NextAttach ==
    \/ AttachCall
    \/ AttachStep

SpecAttach == InitAttach /\ [][NextAttach]_vars

(* The Scheme procedure that is running returns a value. *)
CtlReturn ==
    /\ CtlRunning
    /\ vm.next.op = "scheme"
    /\ CtlStepped(Exec(vm, [k |-> "values", args |-> ValueArgs(1)]),
                  [k |-> "values", args |-> ValueArgs(1)], Carried)

(* Scheme code calls a continuation that call/cc captured. *)
CtlThrowOne ==
    /\ CtlCode
    /\ \E ep \in DOMAIN vm.eps :
          /\ vm.eps[ep].ehandler = SCM_FALSE           \* made by Scm_VMCallCC
          /\ CtlStepped(Exec(vm, [k |-> "throw", ep |-> ep, args |-> ThrowArgs(1)]),
                        [k |-> "throw", ep |-> ep, args |-> ThrowArgs(1)],
                        ThrowRecord(vm, ep, ThrowArgs(1)))

----------------------------------------------------------------------------
(* The runs that enter the run loop from Scheme code that has an        *)
(* unfinished argument block and a continuation: Scm_ApplyRec called by *)
(* native code, inside which procedures return, errors are raised and   *)
(* caught, continuations are captured and called.                       *)

BalPrefixes ==
    { \* an argument block above a continuation frame
      << [k |-> "apply_rec", proc |-> 500],
         [k |-> "push", args |-> <<501, 502>>],
         [k |-> "push_cont", pc |-> 503],
         [k |-> "push", args |-> <<504>>] >>,
      \* the same, in the body of with-error-handler
      << [k |-> "apply_rec", proc |-> 500],
         [k |-> "push_cont", pc |-> 501],
         [k |-> "with_error_handler", handler |-> 520, proc |-> 521],
         [k |-> "push_cont", pc |-> 502],
         [k |-> "push", args |-> <<503, 504>>] >>,
      \* an argument block above a C continuation
      << [k |-> "apply_rec", proc |-> 500],
         [k |-> "push_cc", pc |-> 511, data |-> <<512, 513>>],
         [k |-> "push", args |-> <<514>>] >>,
      \* the host has applied a procedure that captured a continuation and
      \* has returned; it has applied a second procedure, which has called
      \* the continuation in the body of with-error-handler
      << [k |-> "apply_rec", proc |-> 500],
         [k |-> "callcc", proc |-> 502],
         [k |-> "values", args |-> <<81>>],
         [k |-> "apply_rec", proc |-> 510],
         [k |-> "push_cont", pc |-> 511],
         [k |-> "with_error_handler", handler |-> 520, proc |-> 521],
         [k |-> "throw", ep |-> 1, args |-> <<71>>] >>,
      \* the host has applied a procedure that captured a continuation and
      \* has returned; the second procedure it applied has called the
      \* continuation, and the code so resumed has called native code that
      \* ran the interpreter, where a second continuation was captured
      << [k |-> "apply_rec", proc |-> 500],
         [k |-> "push_cont", pc |-> 501],
         [k |-> "callcc", proc |-> 502],
         [k |-> "values", args |-> <<81>>],
         [k |-> "values", args |-> <<81>>],
         [k |-> "apply_rec", proc |-> 510, reuse |-> FALSE],
         [k |-> "throw", ep |-> 1, args |-> <<71>>],
         [k |-> "resume"],
         [k |-> "apply_rec", proc |-> 530, reuse |-> FALSE],
         [k |-> "push_cont", pc |-> 531],
         [k |-> "callcc", proc |-> 532],
         [k |-> "values", args |-> <<81>>],
         [k |-> "values", args |-> <<81>>] >> }

InitBal ==
    /\ \E p \in BalPrefixes :
          Started(RunPair(<< Scm__InitVM(StackSize), Scm__InitVM(StackSize) >>, p))
    /\ nsteps = 0
    /\ last = [ i |-> [k |-> "init"], pre |-> Context(Scm__InitVM(StackSize)),
                throw |-> NoThrow, body |-> <<>> ]

(* Native code called from Scheme applies a procedure: Scm_ApplyRec. *)
BalApplyRec ==
    /\ CtlCode
    /\ Len(vm.cstk) < MaxErrCStack
    /\ CtlStepped(Exec(vm, [k |-> "apply_rec", proc |-> FreshProc, reuse |-> FALSE]),
                  [k |-> "apply_rec", reuse |-> FALSE], NoThrow)

NextBal ==
    \/ BalApplyRec
    \/ CtlReturn
    \/ CtlWithErrorHandler
    \/ CtlError
    \/ CtlCallCC
    \/ CtlThrowOne
    \/ CtlResume

SpecBal == InitBal /\ [][NextBal]_vars

----------------------------------------------------------------------------
(* The runs with the two forms that install an escape point: their      *)
(* bodies return, raise errors, capture continuations, and are entered  *)
(* again through them, from their handlers and from outside.            *)

FormPrefixes ==
    { \* the body of with-error-handler, of a guard
      << [k |-> "apply_rec", proc |-> 500],
         [k |-> "push_cont", pc |-> 501],
         [k |-> "with_error_handler", handler |-> 520, proc |-> 521] >>,
      << [k |-> "apply_rec", proc |-> 500],
         [k |-> "push_cont", pc |-> 501],
         [k |-> "with_guard_handler", handler |-> 520, proc |-> 521] >>,
      \* a continuation captured in the body
      << [k |-> "apply_rec", proc |-> 500],
         [k |-> "push_cont", pc |-> 501],
         [k |-> "with_error_handler", handler |-> 520, proc |-> 521],
         [k |-> "push_cont", pc |-> 502],
         [k |-> "callcc", proc |-> 503],
         [k |-> "values", args |-> <<81>>] >>,
      << [k |-> "apply_rec", proc |-> 500],
         [k |-> "push_cont", pc |-> 501],
         [k |-> "with_guard_handler", handler |-> 520, proc |-> 521],
         [k |-> "push_cont", pc |-> 502],
         [k |-> "callcc", proc |-> 503],
         [k |-> "values", args |-> <<81>>] >>,
      \* a guard in the body of with-error-handler
      << [k |-> "apply_rec", proc |-> 500],
         [k |-> "push_cont", pc |-> 501],
         [k |-> "with_error_handler", handler |-> 520, proc |-> 521],
         [k |-> "push_cont", pc |-> 502],
         [k |-> "with_guard_handler", handler |-> 530, proc |-> 531] >>,
      \* the form has finished and a continuation captured in its body
      \* is left
      << [k |-> "apply_rec", proc |-> 500],
         [k |-> "push_cont", pc |-> 501],
         [k |-> "with_error_handler", handler |-> 520, proc |-> 521],
         [k |-> "push_cont", pc |-> 502],
         [k |-> "callcc", proc |-> 503],
         [k |-> "values", args |-> <<81>>],
         [k |-> "values", args |-> <<81>>] >> }

InitForm ==
    /\ \E p \in FormPrefixes :
          Started(RunPair(<< Scm__InitVM(StackSize), Scm__InitVM(StackSize) >>, p))
    /\ nsteps = 0
    /\ last = [ i |-> [k |-> "init"], pre |-> Context(Scm__InitVM(StackSize)),
                throw |-> NoThrow, body |-> <<>> ]

NextForm ==
    \/ CtlReturn
    \/ CtlPushCont
    \/ CtlWithErrorHandler
    \/ CtlWithGuardHandler
    \/ CtlError
    \/ CtlCallCC
    \/ CtlThrowOne
    \/ CtlResume

SpecForm == InitForm /\ [][NextForm]_vars

----------------------------------------------------------------------------
(* The runs with operations on a port: the host program and native code *)
(* called from Scheme lock the port and make a call under               *)
(* PORT_SAFE_CALL that returns, raises an error, or applies a Scheme    *)
(* procedure, which returns, raises an error, installs an error         *)
(* handler, or operates on the port itself.                             *)

(* The port at the start: nobody has locked it, or a VM whose thread    *)
(* has ended has left it locked.                                        *)
GetcPorts ==
    { Scm_MakePort,
      [Scm_MakePort EXCEPT !.lockOwner = 2, !.lockCount = MaxLockCount] }

GetcPrefixes ==
    { \* the host program
      << >>,
      \* a Scheme procedure
      << [k |-> "apply_rec", proc |-> 500] >>,
      \* the body of with-error-handler
      << [k |-> "apply_rec", proc |-> 500],
         [k |-> "push_cont", pc |-> 501],
         [k |-> "with_error_handler", handler |-> 520, proc |-> 521] >>,
      \* a Scheme procedure applied by an operation on the port
      << [k |-> "getc", call |-> [k |-> "apply", proc |-> 500]] >>,
      \* the same, under with-error-handler
      << [k |-> "apply_rec", proc |-> 500],
         [k |-> "push_cont", pc |-> 501],
         [k |-> "with_error_handler", handler |-> 520, proc |-> 521],
         [k |-> "push_cont", pc |-> 502],
         [k |-> "getc", call |-> [k |-> "apply", proc |-> 503]] >> }

InitGetc ==
    /\ \E p0 \in GetcPorts, p \in GetcPrefixes :
          Started(RunPair(<< [Scm__InitVM(StackSize) EXCEPT !.port = p0],
                             Scm__InitVM(StackSize) >>, p))
    /\ nsteps = 0
    /\ last = [ i |-> [k |-> "init"], pre |-> Context(Scm__InitVM(StackSize)),
                throw |-> NoThrow, body |-> <<>> ]

(* What the call under PORT_SAFE_CALL does. *)
GetcCalls ==
    { [k |-> "return"], [k |-> "error"], [k |-> "apply", proc |-> FreshProc] }

(* The host program, or native code called from Scheme, operates on the *)
(* port.                                                                *)
CtlGetc ==
    /\ CtlRunning
    /\ vm.next.op = "host" \/ CtlCode
    /\ Len(vm.cstk) < MaxErrCStack
    /\ \E c \in GetcCalls, r \in Reuses(vm) :
          CtlStepped(Exec(vm, [k |-> "getc", call |-> c, reuse |-> r]),
                     [k |-> "getc", call |-> c, reuse |-> r], NoThrow)

NextGetc ==
    \/ CtlGetc
    \/ CtlReturn
    \/ CtlWithErrorHandler
    \/ CtlError
    \/ CtlCallCC
    \/ CtlThrowOne

SpecGetc == InitGetc /\ [][NextGetc]_vars

----------------------------------------------------------------------------
(* The runs with Scm_Apply: the host program and native code called     *)
(* from Scheme apply procedures that return values, raise errors,       *)
(* install handlers of their own and capture partial continuations.     *)

SafePrefixes ==
    { \* the host has called Scm_Apply
      << [k |-> "safe_apply", proc |-> 500] >>,
      \* native code called from the procedure has called Scm_Apply
      << [k |-> "safe_apply", proc |-> 500],
         [k |-> "push_cont", pc |-> 501],
         [k |-> "safe_apply", proc |-> 502] >>,
      \* the body of a dynamic-wind
      << [k |-> "safe_apply", proc |-> 500],
         [k |-> "push_cont", pc |-> 501],
         [k |-> "dynamic_wind"],
         [k |-> "values", args |-> <<81>>] >>,
      \* Scm_Apply called under Scm_ApplyRec in the body of
      \* with-error-handler
      << [k |-> "apply_rec", proc |-> 500],
         [k |-> "push_cont", pc |-> 501],
         [k |-> "with_error_handler", handler |-> 520, proc |-> 521],
         [k |-> "push_cont", pc |-> 502],
         [k |-> "safe_apply", proc |-> 503] >> }

InitSafe ==
    /\ \E p \in SafePrefixes :
          Started(RunPair(<< Scm__InitVM(StackSize), Scm__InitVM(StackSize) >>, p))
    /\ nsteps = 0
    /\ last = [ i |-> [k |-> "init"], pre |-> Context(Scm__InitVM(StackSize)),
                throw |-> NoThrow, body |-> <<>> ]

NextSafe ==
    \/ CtlSafeApply
    \/ CtlSafeApplyRec
    \/ CtlValues
    \/ CtlDynamicWind
    \/ CtlPushCont
    \/ CtlWithErrorHandler
    \/ CtlCallPC
    \/ CtlError

SpecSafe == InitSafe /\ [][NextSafe]_vars

----------------------------------------------------------------------------
(* The runs with error escapes: errors raised by Scheme code and by the *)
(* host program, with and without an escape point, under nested entries *)
(* of the run loop.                                                     *)

EscPrefixes ==
    { \* the host has applied a procedure
      << [k |-> "apply_rec", proc |-> 500] >>,
      \* native code called from the procedure has applied another
      << [k |-> "apply_rec", proc |-> 500],
         [k |-> "push_cont", pc |-> 501],
         [k |-> "apply_rec", proc |-> 502] >>,
      \* the body of a dynamic-wind in the body of another
      << [k |-> "apply_rec", proc |-> 500],
         [k |-> "dynamic_wind"],
         [k |-> "values", args |-> <<81>>],
         [k |-> "dynamic_wind"],
         [k |-> "values", args |-> <<81>>] >>,
      \* native code called from the body of with-error-handler has
      \* applied a procedure
      << [k |-> "apply_rec", proc |-> 500],
         [k |-> "push_cont", pc |-> 501],
         [k |-> "with_error_handler", handler |-> 520, proc |-> 521],
         [k |-> "push_cont", pc |-> 502],
         [k |-> "apply_rec", proc |-> 503] >>,
      \* the body of with-error-handler has called call/pc
      << [k |-> "apply_rec", proc |-> 500],
         [k |-> "push_cont", pc |-> 501],
         [k |-> "with_error_handler", handler |-> 520, proc |-> 521],
         [k |-> "callpc", proc |-> 522] >> }

InitEsc ==
    /\ \E p \in EscPrefixes :
          Started(RunPair(<< Scm__InitVM(StackSize), Scm__InitVM(StackSize) >>, p))
    /\ nsteps = 0
    /\ last = [ i |-> [k |-> "init"], pre |-> Context(Scm__InitVM(StackSize)),
                throw |-> NoThrow, body |-> <<>> ]

NextEsc ==
    \/ CtlHostApply
    \/ CtlApplyRec
    \/ CtlValues
    \/ CtlDynamicWind
    \/ CtlPushCont
    \/ CtlWithErrorHandler
    \/ CtlError
    \/ CtlHostError

SpecEsc == InitEsc /\ [][NextEsc]_vars

----------------------------------------------------------------------------
(* The runs with exception handlers: conditions, serious and            *)
(* continuable, raised with and without an installed handler.           *)

ExcPrefixes ==
    { \* the host has applied a procedure
      << [k |-> "apply_rec", proc |-> 500] >>,
      \* the thunk of with-exception-handler
      << [k |-> "apply_rec", proc |-> 500],
         [k |-> "push_cont", pc |-> 501],
         [k |-> "with_exception_handler", handler |-> 540, proc |-> 541] >>,
      \* the same in the body of with-error-handler
      << [k |-> "apply_rec", proc |-> 500],
         [k |-> "push_cont", pc |-> 501],
         [k |-> "with_error_handler", handler |-> 520, proc |-> 521],
         [k |-> "push_cont", pc |-> 502],
         [k |-> "with_exception_handler", handler |-> 540, proc |-> 541] >>,
      \* the body of with-error-handler in the thunk of
      \* with-exception-handler
      << [k |-> "apply_rec", proc |-> 500],
         [k |-> "push_cont", pc |-> 501],
         [k |-> "with_exception_handler", handler |-> 540, proc |-> 541],
         [k |-> "push_cont", pc |-> 502],
         [k |-> "with_error_handler", handler |-> 520, proc |-> 521] >> }

InitExc ==
    /\ \E p \in ExcPrefixes :
          Started(RunPair(<< Scm__InitVM(StackSize), Scm__InitVM(StackSize) >>, p))
    /\ nsteps = 0
    /\ last = [ i |-> [k |-> "init"], pre |-> Context(Scm__InitVM(StackSize)),
                throw |-> NoThrow, body |-> <<>> ]

NextExc ==
    \/ CtlHostApply
    \/ CtlApplyRec
    \/ CtlValues
    \/ CtlPushCont
    \/ CtlWithErrorHandler
    \/ CtlWithExceptionHandler
    \/ CtlError
    \/ CtlRaise

SpecExc == InitExc /\ [][NextExc]_vars


----------------------------------------------------------------------------
(* Properties of the stack manager. *)

(* The frames of a chain, innermost first.  The fuel exceeds the number   *)
(* of frames there can be.                                                *)
Fuel(v) == v.stackEnd + Len(v.heap)

RECURSIVE ContChainN(_, _, _)
ContChainN(v, c, n) ==
    IF c = NULL \/ n = 0 THEN <<>>
    ELSE << c >> \o ContChainN(v, CGet(v, c, "prev"), n - 1)

ContChain(v, c) == ContChainN(v, c, Fuel(v))

RECURSIVE EnvChainN(_, _, _)
EnvChainN(v, e, n) ==
    IF e = NULL \/ n = 0 THEN <<>>
    ELSE << e >> \o EnvChainN(v, EGet(v, e, "up"), n - 1)

EnvChain(v, e) == EnvChainN(v, e, Fuel(v))

Range(f) == { f[x] : x \in DOMAIN f }

(* The heap blocks that are continuation frames, and environment frames. *)
HeapConts(v) == { -k : k \in { j \in DOMAIN v.heap : "prev" \in DOMAIN v.heap[j] } }
HeapEnvs(v) == { -k : k \in { j \in DOMAIN v.heap : "up" \in DOMAIN v.heap[j] } }

(* The host-stack records and the escape points the second pass of        *)
(* save_cont walks.                                                       *)
RECURSIVE CStackChainN(_, _, _)
CStackChainN(v, cs, n) ==
    IF cs = NULL \/ n = 0 THEN {}
    ELSE { cs } \cup CStackChainN(v, v.cstk[cs].prev, n - 1)

RECURSIVE EpChainN(_, _, _, _)
EpChainN(v, ep, link, n) ==
    IF ep = NULL \/ n = 0 THEN {}
    ELSE { ep } \cup EpChainN(v, v.eps[ep][link], link, n - 1)

CStackChain(v) == CStackChainN(v, v.cstack, Len(v.cstk))
EscapePointChain(v) == EpChainN(v, v.escapePoint, "prev", Len(v.eps))
FloatingChain(v) == EpChainN(v, SCM_VM_FLOATING_EP(v), "floating", Len(v.eps))

(* What holds when save_stack has returned. *)
SavedPost(v) ==
    /\ \A c \in Range(ContChain(v, v.cont)) : HEAP_P(c) /\ ~IN_STACK_P(v, c)
    /\ \A e \in Range(EnvChain(v, v.env)) : HEAP_P(e)
    /\ \A c \in HeapConts(v) :
          \A e \in Range(EnvChain(v, CGet(v, c, "env"))) : HEAP_P(e)
    /\ v.argp = v.stackBase
    /\ v.sp >= v.argp
    /\ \A a \in v.sp .. v.stackEnd - 1 : v.stack[a] = NULL

(* C5: after save_stack no frame of the chain of vm->cont is in the      *)
(* stack, every environment frame reachable from vm->env or from a saved *)
(* continuation frame is in the heap, and the stack holds only the       *)
(* argument block from argp to sp, moved to the base.  It holds for the  *)
(* save_stack just executed and for a save_stack run in any state        *)
(* reached.                                                              *)
C5_SaveStackMovesAllFrames ==
    ~Halted(vm) =>
        LET w == save_stack(vm)
        IN  /\ SavedPost(w)
            /\ RdSeq(w, vm.stackBase, vm.sp - vm.argp)
                  = RdSeq(vm, vm.argp, vm.sp - vm.argp)
            /\ last.i.k = "save_stack" => SavedPost(vm)

(* save_stack has just promoted a chain of continuation frames and of    *)
(* environments that were in the stack, under a pending argument block.  *)
C5_Witness ==
    /\ last.i.k = "save_stack"
    /\ ~Halted(vm)
    /\ last.pre.cont > 0 /\ last.pre.env > 0
    /\ last.pre.argp > vm.stackBase
    /\ vm.sp > vm.argp
    /\ Len(ContChain(vm, vm.cont)) >= 2
    /\ Len(EnvChain(vm, vm.env)) >= 2

(* An in-stack frame that carries the forwarding marker. *)
ForwardedInStackEnv(v, e) == IN_STACK_P(v, e) /\ FORWARDED_ENV_P(v, e)
ForwardedInStackCont(v, c) == IN_STACK_P(v, c) /\ FORWARDED_CONT_P(v, c)

(* No heap frame is marked forwarded and no heap frame refers to a        *)
(* forwarded frame.                                                       *)
NoLeakInHeap(v) ==
    /\ \A c \in HeapConts(v) :
          /\ CGet(v, c, "size") # -1
          /\ ~ForwardedInStackCont(v, CGet(v, c, "prev"))
          /\ ~ForwardedInStackEnv(v, CGet(v, c, "env"))
    /\ \A e \in HeapEnvs(v) :
          /\ EGet(v, e, "size") # -1
          /\ ~ForwardedInStackEnv(v, EGet(v, e, "up"))

(* No pointer held outside the stack refers to a forwarded frame. *)
NoLeak(v) ==
    /\ NoLeakInHeap(v)
    /\ ~ForwardedInStackEnv(v, v.env)
    /\ ~ForwardedInStackCont(v, v.cont)
    /\ \A cs \in CStackChain(v) : ~ForwardedInStackCont(v, v.cstk[cs].cont)
    /\ \A ep \in EscapePointChain(v) \cup FloatingChain(v) :
          ~ForwardedInStackCont(v, v.eps[ep].cont)

(* The environments save_env is called with: vm->env and the env of the *)
(* in-stack continuation frames.                                        *)
SaveEnvArgs(v) ==
    { v.env } \cup
    { CGet(v, c, "env") : c \in { d \in Range(ContChain(v, v.cont)) : IN_STACK_P(v, d) } }

RECURSIVE Dec(_, _, _)
Dec(v, w, n) ==
    IF ~HEAP_P(w) \/ n = 0 THEN << "word", w >>
    ELSE LET blk == v.heap[-w] IN
         IF "car" \in DOMAIN blk
         THEN << "pair", Dec(v, blk.car, n - 1), Dec(v, blk.cdr, n - 1) >>
         ELSE IF "subr" \in DOMAIN blk THEN << "subr", blk.subr, blk.data >>
         ELSE IF "array" \in DOMAIN blk
         THEN << "array", [i \in DOMAIN blk.array |-> Dec(v, blk.array[i], n - 1)] >>
         ELSE << "frame" >>

DecSeq(v, ws) == [i \in DOMAIN ws |-> Dec(v, ws[i], Fuel(v))]

(* The variables of an environment frame, which lie below its header. *)
EnvData(v, e) ==
    IF HEAP_P(e) THEN v.heap[-e].data
    ELSE RdSeq(v, e - EGet(v, e, "size"), EGet(v, e, "size"))

(* The bindings of a chain of environments, innermost first. *)
EnvDec(v, e) ==
    LET ch == EnvChain(v, e)
    IN  [i \in DOMAIN ch |-> [ info |-> EGet(v, ch[i], "info"),
                               size |-> EGet(v, ch[i], "size"),
                               data |-> DecSeq(v, EnvData(v, ch[i])) ]]

(* What the returns through a chain of continuation frames restore. *)
ContDec(v, c) ==
    LET ch == ContChain(v, c)
    IN  [i \in DOMAIN ch |-> [ pc |-> CGet(v, ch[i], "pc"),
                               base |-> CGet(v, ch[i], "base"),
                               ccont |-> CGet(v, ch[i], "argp") = NULL,
                               size |-> CGet(v, ch[i], "size"),
                               data |-> DecSeq(v, ContData(v, ch[i])),
                               env |-> EnvDec(v, CGet(v, ch[i], "env")) ]]

(* The state of the VM up to the addresses of frames. *)
Abs(v) ==
    [ pc |-> v.pc, base |-> v.base,
      val0 |-> Dec(v, v.val0, Fuel(v)), numVals |-> v.numVals,
      args |-> DecSeq(v, RdSeq(v, v.argp, v.sp - v.argp)),
      env |-> EnvDec(v, v.env),
      cont |-> ContDec(v, v.cont),
      handlers |-> Dec(v, v.handlers, Fuel(v)),
      cstack |-> v.cstack,
      cstk |-> [i \in CStackChain(v) |-> ContDec(v, v.cstk[i].cont)],
      escapePoint |-> v.escapePoint,
      eps |-> [i \in EscapePointChain(v) \cup FloatingChain(v) |->
                  ContDec(v, v.eps[i].cont)],
      next |-> v.next.op, exited |-> v.exited, failed |-> v.failed,
      trace |-> v.trace ]

(* C7: stack promotion is transparent.  The run with save_stack,         *)
(* save_cont and get_env at arbitrary instruction boundaries, and with   *)
(* the promotions CHECK_STACK makes, and the run of the same             *)
(* instructions without any promotion agree at each instruction, hence   *)
(* at each return, on pc, base, the argument block, the bindings of the  *)
(* environment chain and on what every frame of the continuation chain   *)
(* will restore; only addresses differ.                                  *)
C7_PromotionIsTransparent ==
    ~vm.overflow => Abs(vm) = Abs(ref)

(* A return has just restored, from a promoted frame, an argument block  *)
(* and an environment, both not empty, that the reference run restored   *)
(* from its stack.                                                       *)
C7_Witness ==
    /\ last.i.k = "return"
    /\ ~Halted(vm)
    /\ HEAP_P(last.pre.cont)
    /\ vm.sp > vm.argp
    /\ HEAP_P(vm.env) /\ vm.heap[-vm.env].size > 0
    /\ ref.env > 0 /\ ref.heap = <<>>

(* The target of the shift of DISCARD_ENV. *)
ShiftTarget(v) ==
    IF IN_STACK_P(v, v.cont) THEN CONT_FRAME_END(v, v.cont) ELSE v.stackBase

(* The last instruction was a tail call of a procedure with just the    *)
(* arguments of the instruction (no other argument was pending).        *)
TailCalled ==
    /\ last.i.k = "apply"
    /\ last.pre.sp = last.pre.argp

(* The next tail call with the argument count of the last one. *)
SelfTailCall ==
    Exec(vm, [ k |-> "apply", proc |-> vm.base,
               args |-> FreshArgs(Len(last.i.args)) ])

CheckSizes == 1 .. CONT_FRAME_SIZE + 2

(* C9: the stack pointer never leaves the value stack: after             *)
(* CHECK_STACK(n), whatever the size of the argument block under         *)
(* construction, at least n free slots remain, so every push guarded by  *)
(* it stores inside the stack and keeps stackBase <= sp <= stackEnd.     *)
C9_StackPointerStaysInStack ==
    /\ ~vm.overflow
    /\ vm.stackBase <= vm.sp /\ vm.sp <= vm.stackEnd

(* The same for CHECK_STACK alone: it leaves n free slots. *)
C9_RoomAfterCheckStack ==
    \A n \in CheckSizes : CHECK_STACK(vm, n).sp + n <= vm.stackEnd

(* With an argument block that leaves room for n more words in the       *)
(* whole stack, CHECK_STACK(n) does leave n free slots.                  *)
C9_RoomWhenBlockFits ==
    \A n \in CheckSizes :
        (~Halted(vm) /\ (vm.sp - vm.argp) + n <= vm.stackEnd - vm.stackBase)
            => CHECK_STACK(vm, n).sp + n <= vm.stackEnd

----------------------------------------------------------------------------
(* Properties of the control runs. *)

Count(q, p) == Cardinality({ j \in DOMAIN q : q[j] = p })

(* The calls of the thunks of the n-th dynamic-wind, in order. *)
WindTrace(v, n) == SelectSeq(v.trace, LAMBDA p : IsWindThunk(p) /\ ThunkWind(p) = n)

(* The running code is in the dynamic extent of the body of the n-th      *)
(* dynamic-wind: its entry is in the handler list.                        *)
InExtent(v, n) ==
    \E j \in DOMAIN ListElems(v, v.handlers) :
        SCM_CAR(v, ListElems(v, v.handlers)[j]) = WindThunk(n, 1)

(* The n-th dynamic-wind is being entered: its before-thunk is running. *)
Entering(v, n) == v.next.op = "scheme" /\ v.base = WindThunk(n, 1)

(* The running code is in the body of the n-th dynamic-wind: the frame of *)
(* dynwind_body_cc that the body returns to is in the continuation.       *)
InBody(v, n) ==
    \E j \in DOMAIN ContChain(v, v.cont) :
        LET c == ContChain(v, v.cont)[j]
        IN  /\ CGet(v, c, "argp") = NULL
            /\ CGet(v, c, "pc") = dynwind_body_cc_addr
            /\ ContData(v, c)[1] = WindThunk(n, 3)

(* A thunk called by a reinstatement or by the default error handler is  *)
(* running, or the process has exited: the continuation is still the one *)
(* that is being left.                                                   *)
Unwinding(v) ==
    \/ v.exited
    \/ /\ v.next.op = "scheme"
       /\ IsWindThunk(v.base) /\ ThunkRole(v.base) \in {1, 3}
       /\ TopCC(v) \notin {dynwind_before_cc_addr, dynwind_after_cc_addr}

(* C1: every dynamic-wind has had its after-thunk called once for each    *)
(* exit from its body.  An entry is a call of the before-thunk.  While    *)
(* the running code is in the body, or the before-thunk is running, there *)
(* is one more entry than calls of the after-thunk; once the body has     *)
(* been left, by normal return, by an error or by a continuation, there   *)
(* are as many.  While thunks are being called to leave and enter bodies, *)
(* the handler list says which bodies have not been left yet.             *)
C1_AfterThunkOncePerExit ==
    ~(vm.overflow \/ vm.failed) =>
        \A n \in 1..WindCount(vm) :
            Count(vm.trace, WindThunk(n, 1)) =
                Count(vm.trace, WindThunk(n, 3))
                    + (IF \/ Entering(vm, n)
                          \/ IF Unwinding(vm) THEN InExtent(vm, n) ELSE InBody(vm, n)
                       THEN 1 ELSE 0)

(* The default error handler has called an after-thunk: the body was left *)
(* by an error.                                                           *)
C1_Witness ==
    /\ vm.next.op = "scheme"
    /\ IsWindThunk(vm.base) /\ ThunkRole(vm.base) = 3
    /\ BOUNDARY_FRAME_P(vm, vm.cont)
    /\ Count(vm.trace, vm.base) = 1

(* C10: on the normal path Scm_VMDynamicWind calls before, body and after *)
(* once each, in that order.  before runs with the handler list of the    *)
(* caller; body runs with the entry (before . after) in front of that     *)
(* list; after runs with the list that follows the entry.                 *)
C10_DynamicWindOrder ==
    ~Halted(vm) =>
        /\ \A n \in 1..WindCount(vm) :
              LET q == WindTrace(vm, n)
              IN  /\ q[1] = WindThunk(n, 1)
                  /\ Len(q) >= 2 => q[2] = WindThunk(n, 2)
                  /\ Count(q, WindThunk(n, 2)) <= 1
        /\ last.i.k = "dynamic_wind" =>
              /\ vm.next.op = "scheme"
              /\ vm.base = WindThunk(last.i.wind, 1)
              /\ vm.trace[Len(vm.trace)] = WindThunk(last.i.wind, 1)
              /\ Len(vm.trace) = last.pre.ntrace + 1
              /\ vm.handlers = last.pre.handlers
        /\ (last.i.k = "values" /\ last.pre.after = dynwind_before_cc_addr) =>
              LET n == ThunkWind(last.pre.base)
              IN  /\ vm.next.op = "scheme"
                  /\ vm.base = WindThunk(n, 2)
                  /\ WindTrace(vm, n) = << WindThunk(n, 1), WindThunk(n, 2) >>
                  /\ Len(vm.trace) = last.pre.ntrace + 1
                  /\ SCM_PAIRP(vm, vm.handlers)
                  /\ SCM_CAR(vm, SCM_CAR(vm, vm.handlers)) = WindThunk(n, 1)
                  /\ SCM_CDR(vm, SCM_CAR(vm, vm.handlers)) = WindThunk(n, 3)
                  /\ SCM_CDR(vm, vm.handlers) = last.pre.handlers
        /\ (/\ last.i.k = "values"
            /\ last.pre.after = dynwind_body_cc_addr
            /\ IsWindThunk(SCM_CAR(vm, SCM_CAR(vm, last.pre.handlers)))) =>
              LET n == ThunkWind(SCM_CAR(vm, SCM_CAR(vm, last.pre.handlers)))
              IN  /\ vm.next.op = "scheme"
                  /\ vm.base = WindThunk(n, 3)
                  /\ vm.trace[Len(vm.trace)] = WindThunk(n, 3)
                  /\ Len(vm.trace) = last.pre.ntrace + 1
                  /\ vm.handlers = SCM_CDR(vm, last.pre.handlers)
        /\ (/\ last.i.k = "values"
            /\ last.pre.after = dynwind_after_cc_addr
            /\ IsWindThunk(last.pre.base)
            /\ Count(vm.trace, WindThunk(ThunkWind(last.pre.base), 1)) = 1) =>
              LET n == ThunkWind(last.pre.base)
              IN  WindTrace(vm, n) = << WindThunk(n, 1), WindThunk(n, 2), WindThunk(n, 3) >>

(* before, body and after of one dynamic-wind have been called and have   *)
(* returned.                                                              *)
C10_Witness ==
    /\ last.i.k = "values"
    /\ last.pre.after = dynwind_after_cc_addr
    /\ ~Halted(vm)
    /\ WindTrace(vm, ThunkWind(last.pre.base)) =
          << last.pre.base - 2, last.pre.base - 1, last.pre.base >>

(* The thunks called since the continuation procedure was called. *)
CalledSince(v, t) == SubSeq(v.trace, t.ntrace + 1, Len(v.trace))

(* C2: a reinstatement calls the after-thunks of the entries of the       *)
(* current list that are not in the target list, front first, then the   *)
(* before-thunks of the entries of the target list that are not in the   *)
(* current list, from the back; each once and no other thunk.  While one *)
(* of them is running the target continuation is not installed; when     *)
(* throw_cont_body returns all have been called and the target           *)
(* continuation and handler list are installed.                          *)
C2_ReinstatementThunks ==
    (last.throw.ep # NULL /\ ~Halted(vm)) =>
        LET t == last.throw
            called == CalledSince(vm, t)
        IN  /\ vm.next.op = "reinstated" =>
                  /\ called = t.expect
                  /\ vm.cont = vm.eps[t.ep].cont
                  /\ vm.handlers = t.target
            /\ (vm.next.op = "scheme" /\ TopCC(vm) = throw_cont_cc_addr) =>
                  /\ called # <<>>
                  /\ Len(called) <= Len(t.expect)
                  /\ called = SubSeq(t.expect, 1, Len(called))
                  /\ vm.base = called[Len(called)]
                  /\ vm.cont # vm.eps[t.ep].cont

(* A reinstatement has called an after-thunk and then a before-thunk. *)
C2_Witness ==
    /\ vm.next.op = "reinstated"
    /\ Len(last.throw.expect) = 2
    /\ ThunkRole(last.throw.expect[1]) = 3
    /\ ThunkRole(last.throw.expect[2]) = 1
    /\ CalledSince(vm, last.throw) = last.throw.expect

(* C3: a continuation captured by Scm_VMCallCC and called at once with    *)
(* one value V: no thunk is called, the handler list is the one at        *)
(* capture, the continuation is the captured one, which is also the       *)
(* continuation of the procedure that received it, and VAL0 is V.         *)
C3_CaptureThenInvoke ==
    (/\ last.i.k = "throw"
     /\ last.throw.fresh
     /\ Len(last.throw.args) = 1
     /\ ~Halted(vm)) =>
        /\ vm.next.op = "reinstated"
        /\ Len(vm.trace) = last.throw.ntrace
        /\ vm.handlers = last.throw.capture.handlers
        /\ vm.handlers = last.pre.handlers
        /\ vm.cont = vm.eps[last.throw.ep].cont
        /\ vm.cont = last.pre.cont
        /\ vm.val0 = last.throw.args[1]

(* A continuation captured in the body of a dynamic-wind has been called *)
(* at once.                                                              *)
C3_Witness ==
    /\ last.i.k = "throw"
    /\ last.throw.fresh
    /\ Len(last.throw.args) = 1
    /\ vm.next.op = "reinstated"
    /\ vm.handlers # SCM_NIL

(* C4: where throw_cont_body returns, the n arguments of the continuation *)
(* are the values of the VM: VAL0 is the first, vals holds the others in  *)
(* order and numVals is n.                                                *)
C4_ReinstatedValues ==
    vm.next.op = "reinstated" =>
        LET args == ListElems(vm, vm.next.fr.args)
            n == Len(args)
        IN  /\ vm.numVals = n
            /\ n >= 1 => vm.val0 = args[1]
            /\ \A j \in 1..(n - 1) : vm.vals[j] = args[j + 1]

(* What the code does: numVals is set when there are two arguments or    *)
(* more.                                                                 *)
C4_ValuesOfTwoOrMore ==
    vm.next.op = "reinstated" =>
        LET args == ListElems(vm, vm.next.fr.args)
            n == Len(args)
        IN  /\ n >= 2 => vm.numVals = n
            /\ n >= 1 => vm.val0 = args[1]
            /\ n = 0 => vm.val0 = SCM_UNDEFINED
            /\ n < SCM_VM_MAX_VALUES
            /\ \A j \in 1..(n - 1) : vm.vals[j] = args[j + 1]

(* C11: when the after-thunk of a dynamic-wind has returned on the normal *)
(* path, the values of the VM are those the body returned: numVals is     *)
(* their number, VAL0 the first and vals the others, whatever the         *)
(* after-thunk returned.  When the form was in tail position in the body  *)
(* of another, the after-thunk of that one is called at once, and the     *)
(* values are looked at when it has returned.                             *)
C11_DynamicWindValues ==
    (/\ last.i.k = "values"
     /\ last.pre.after = dynwind_after_cc_addr
     /\ ~(IsWindThunk(vm.base) /\ ThunkRole(vm.base) = 3)    \* of an enclosing form
     /\ ~Halted(vm)) =>
        LET n == Len(last.body)
        IN  /\ vm.numVals = n
            /\ vm.val0 = (IF n = 0 THEN SCM_UNDEFINED ELSE last.body[1])
            /\ \A j \in 1..(n - 1) : vm.vals[j] = last.body[j + 1]

(* The body returned the greatest number of values and the after-thunk *)
(* another number.                                                     *)
C11_Witness ==
    /\ last.i.k = "values"
    /\ last.pre.after = dynwind_after_cc_addr
    /\ ~(IsWindThunk(vm.base) /\ ThunkRole(vm.base) = 3)
    /\ ~Halted(vm)
    /\ Len(last.body) = SCM_VM_MAX_VALUES
    /\ Len(last.i.args) # Len(last.body)
    /\ vm.numVals = SCM_VM_MAX_VALUES

(* The part of the handler list l that starts at the entry of the thunk p. *)
RECURSIVE ChainOf(_, _, _)
ChainOf(v, l, p) ==
    IF ~SCM_PAIRP(v, l) THEN NULL
    ELSE IF p \in { SCM_CAR(v, SCM_CAR(v, l)), SCM_CDR(v, SCM_CAR(v, l)) } THEN l
    ELSE ChainOf(v, SCM_CDR(v, l), p)

(* A thunk called by a reinstatement is running. *)
ReinstatementThunk ==
    /\ last.throw.ep # NULL
    /\ ~Halted(vm)
    /\ vm.next.op = "scheme"
    /\ TopCC(vm) = throw_cont_cc_addr
    /\ IsWindThunk(vm.base)

(* C12 as stated: during a reinstatement an after-thunk runs with the    *)
(* handler list that follows its own entry in the current list, and a    *)
(* before-thunk runs with the part of the target list that starts at its *)
(* own entry.                                                            *)
C12_ThunkHandlersWithOwnEntry ==
    ReinstatementThunk =>
        /\ ThunkRole(vm.base) = 3 =>
              vm.handlers = SCM_CDR(vm, ChainOf(vm, last.throw.current, vm.base))
        /\ ThunkRole(vm.base) = 1 =>
              vm.handlers = ChainOf(vm, last.throw.target, vm.base)

(* C12, amended: during a reinstatement an after-thunk runs with the     *)
(* handler list that follows its own entry in the current list, and a    *)
(* before-thunk runs with the handler list that follows its own entry in *)
(* the target list: its own entry is not installed yet.                  *)
C12_ThunkHandlers ==
    ReinstatementThunk =>
        /\ ThunkRole(vm.base) = 3 =>
              vm.handlers = SCM_CDR(vm, ChainOf(vm, last.throw.current, vm.base))
        /\ ThunkRole(vm.base) = 1 =>
              /\ vm.handlers = SCM_CDR(vm, ChainOf(vm, last.throw.target, vm.base))
              /\ vm.handlers # ChainOf(vm, last.throw.target, vm.base)

(* A before-thunk called by a reinstatement runs, after an after-thunk. *)
C12_Witness ==
    /\ ReinstatementThunk
    /\ ThunkRole(vm.base) = 1
    /\ Len(CalledSince(vm, last.throw)) = 2
    /\ ThunkRole(CalledSince(vm, last.throw)[1]) = 3


(* The long jumps and the installations among the events of the last    *)
(* instruction.  Where the registers were left matters for a relay.     *)
JumpEvents(v) ==
    LET es == SelectSeq(v.events, LAMBDA e : e.did \in {"relay", "adjust", "direct"})
    IN  [j \in DOMAIN es |->
            [ did |-> es[j].did, at |-> es[j].at, cstack |-> es[j].cstack,
              cont |-> IF es[j].did = "relay" THEN es[j].cont ELSE NULL ]]

(* C13: a full continuation whose record R is not the current one but   *)
(* is on the chain of host-stack records is reinstated by a long jump   *)
(* with reason CONT: every entry of the run loop between the current    *)
(* record and R pops its boundary frame and its record and jumps again, *)
(* in order, and the handlers are adjusted and the continuation is      *)
(* installed only at the entry that owns R, with vm->cstack = R.        *)
C13_RelayedToCapturedRecord ==
    (/\ last.i.k = "throw"
     /\ last.throw.live
     /\ last.throw.cstack # last.throw.from
     /\ ~Halted(vm))
    => /\ vm.events[1].did = "jump"
       /\ [j \in DOMAIN vm.events[1].relays |-> vm.events[1].relays[j].at]
             = last.throw.path
       /\ JumpEvents(vm) =
             vm.events[1].relays
             \o << [ did |-> "adjust", at |-> last.throw.cstack,
                     cstack |-> last.throw.cstack, cont |-> NULL ] >>
       /\ FrameOf(vm, last.throw.cstack) = last.throw.frame

C13_Witness ==
    /\ last.i.k = "throw"
    /\ last.throw.live
    /\ Len(last.throw.path) >= 2
    /\ ~Halted(vm)
    /\ \E j \in DOMAIN vm.events : vm.events[j].did = "adjust"

(* A ghost continuation: a full continuation captured in a host frame   *)
(* that has returned.                                                   *)
GhostThrow ==
    /\ last.i.k = "throw"
    /\ last.throw.cstack # NULL
    /\ ~last.throw.live

ReturnEvents(v) == { j \in DOMAIN v.events : v.events[j].did \in {"return", "ghost"} }

(* An entry of the run loop returns to its caller only with vm->cont    *)
(* its boundary frame or NULL, and raises the error otherwise.          *)
GhostCaught(v) ==
    \A j \in ReturnEvents(v) :
       LET e == v.events[j] IN
       /\ (e.did = "ghost") <=> (e.cont # e.own /\ e.cont # NULL)
       /\ e.did = "ghost" =>
             \A k \in ReturnEvents(v) : k > j => v.events[k].at # e.at

(* C14: a ghost continuation, whose host-stack record is not on the     *)
(* current chain, is reinstated with no long jump, on the current host  *)
(* stack; and an entry of the run loop that run_loop returns to with    *)
(* vm->cont neither its boundary frame nor NULL raises the error        *)
(* "attempt to return from a ghost continuation." and returns no value. *)
C14_GhostContinuation ==
    /\ GhostThrow => \A j \in DOMAIN vm.events :
                         vm.events[j].did \notin {"jump", "relay", "adjust"}
    /\ GhostCaught(vm)

(* C14, second part, and the first part for the continuations whose     *)
(* dead record has an address that is not on the chain.                 *)
C14_GhostWithoutReuse ==
    /\ (GhostThrow /\ FindCStack(vm, last.throw.from, last.throw.cstack) = NULL)
          => \A j \in DOMAIN vm.events :
                 vm.events[j].did \notin {"jump", "relay", "adjust"}
    /\ GhostCaught(vm)

C14_Witness ==
    /\ last.i.k = "resume"
    /\ \E j \in DOMAIN vm.events : vm.events[j].did = "ghost"

(* The code of the last frame of the chain of a partial continuation    *)
(* returns (the chain ends where Scm_VMCallPC cut it, so vm->cont is    *)
(* NULL while that code runs): the continuation was called, and its     *)
(* frames have returned since.                                          *)
PartialReturned ==
    /\ last.i.k = "values"
    /\ last.throw.ep # NULL
    /\ last.throw.cstack = NULL
    /\ last.pre.cont = NULL
    /\ ~Halted(vm)

(* C15: when the frames of a reinstated partial continuation have all   *)
(* returned, execution continues with the continuation that was current *)
(* when it was called, which receives the result.                       *)
C15_PartialContinuationSpliced ==
    PartialReturned =>
        IF last.throw.contpc = boundaryFrameMark
        THEN \E j \in DOMAIN vm.events :
                /\ vm.events[j].did = "return"
                /\ vm.events[j].at = last.throw.from
        ELSE /\ vm.pc = last.throw.contpc
             /\ vm.next.op = "scheme"
             /\ ValuesOf(vm) = last.i.args

(* The heap-resident continuation frames keep their fields in the step. *)
HeapContsKept ==
    \A c \in HeapConts(vm) : vm'.heap[-c] = vm.heap[-c]

(* C16: no operation changes a field of a continuation frame in the     *)
(* heap.                                                                *)
C16_HeapFramesImmutable == [][HeapContsKept]_vars

(* No operation but the capture of a partial continuation does. *)
C16_ExceptCallPC == [][last'.i.k # "callpc" => HeapContsKept]_vars

(* An error has been raised with an escape point installed, and the     *)
(* default handler is unwinding to it or has just reached it.           *)
Unwinds == "uep" \in DOMAIN last.throw

Events(v, did) == { j \in DOMAIN v.events : v.events[j].did = did }

(* The first event of the kind: that of the escape point of the record  *)
(* when the step reaches more than one.                                 *)
FirstEvent(v, did) ==
    v.events[CHOOSE j \in Events(v, did) : \A k \in Events(v, did) : j <= k]

CaughtEvent(v) == FirstEvent(v, "caught")

(* The after-thunks of dynamic-winds called since the error was raised, *)
(* up to the moment the escape point is reached.                        *)
UnwindCalls(v) ==
    SelectSeq(SubSeq(v.trace, last.throw.ntrace + 1,
                     IF Caught(v) THEN CaughtEvent(v).ntrace ELSE Len(v.trace)),
              LAMBDA t : IsWindThunk(t) /\ ThunkRole(t) = 3)

(* The last step called an after-thunk, whose code is about to run. *)
AfterThunkCalled(v) ==
    /\ ~Halted(v) /\ ~Caught(v)
    /\ v.next.op = "scheme"
    /\ Len(v.trace) > last.pre.ntrace
    /\ IsWindThunk(v.base) /\ ThunkRole(v.base) = 3

(* C17: the default error handler unwinding to an escape point calls    *)
(* the after-thunks of the cells of vm->handlers in front of the list   *)
(* the escape point saved, innermost first, each with vm->handlers the  *)
(* rest of the list after its cell, calls no after-thunk of the saved   *)
(* list, and leaves vm->handlers equal to the saved list.               *)
C17_UnwindToEscapePoint ==
    (Unwinds /\ ~Halted(vm)) =>
        /\ Len(UnwindCalls(vm)) <= Len(last.throw.thunks)
        /\ \A j \in DOMAIN UnwindCalls(vm) : UnwindCalls(vm)[j] = last.throw.thunks[j]
        /\ AfterThunkCalled(vm) =>
              /\ UnwindCalls(vm) # <<>>
              /\ vm.handlers = last.throw.rests[Len(UnwindCalls(vm))]
        /\ Caught(vm) =>
              /\ UnwindCalls(vm) = last.throw.thunks
              /\ CaughtEvent(vm).handlers = last.throw.saved

C17_Witness ==
    /\ Unwinds /\ ~Halted(vm)
    /\ Caught(vm)
    /\ Len(last.throw.thunks) >= 2

C17_WitnessOuter ==
    /\ Unwinds /\ ~Halted(vm)
    /\ Caught(vm)
    /\ Len(last.throw.thunks) >= 1
    /\ last.throw.saved # SCM_NIL

(* The procedures called since the error was raised, up to the moment   *)
(* the escape point is reached.                                         *)
UnwindTrace(v) ==
    SubSeq(v.trace, last.throw.ntrace + 1,
           IF Caught(v) THEN CaughtEvent(v).ntrace ELSE Len(v.trace))

(* The after-thunks called before the error handler of the escape point *)
(* was, or so far when it has not been called.                          *)
CalledBeforeHandler(v) ==
    LET seg == UnwindTrace(v)
        hs == { j \in DOMAIN seg : seg[j] = last.throw.ehandler }
        upto == IF hs = {} THEN Len(seg)
                ELSE (CHOOSE j \in hs : \A k \in hs : j <= k) - 1
    IN  SelectSeq(SubSeq(seg, 1, upto),
                  LAMBDA t : IsWindThunk(t) /\ ThunkRole(t) = 3)

HandlerInvoked(v) ==
    \E j \in DOMAIN UnwindTrace(v) : UnwindTrace(v)[j] = last.throw.ehandler

(* C18: with rewindBefore set, all the after-thunks between the current *)
(* handler list and that of the escape point have been called when the  *)
(* error handler is invoked; with rewindBefore clear, the error handler *)
(* is invoked first and the after-thunks are called after it returned.  *)
C18_RewindBeforeOrAfter ==
    (Unwinds /\ ~Halted(vm)) =>
        /\ (last.throw.rewindBefore /\ HandlerInvoked(vm))
              => CalledBeforeHandler(vm) = last.throw.thunks
        /\ ~last.throw.rewindBefore => CalledBeforeHandler(vm) = <<>>
        /\ Caught(vm) => HandlerInvoked(vm)
        /\ (~last.throw.rewindBefore /\ Caught(vm))
              => UnwindCalls(vm) = last.throw.thunks

C18_Witness ==
    /\ Unwinds /\ ~Halted(vm)
    /\ last.throw.rewindBefore
    /\ Caught(vm)
    /\ Len(last.throw.thunks) >= 2

C18_WitnessAfter ==
    /\ Unwinds /\ ~Halted(vm)
    /\ ~last.throw.rewindBefore
    /\ Caught(vm)
    /\ Len(last.throw.thunks) >= 2

(* The escape point of the error handler of a record of                 *)
(* SCM_UNWIND_PROTECT that a long jump passed.                          *)
ProtectedEp(v, e) == v.cstk[e.at].caller.ep

(* C19: while the error handler of an escape point runs, the escape     *)
(* point is off the main chain (vm->escapePoint is its prev) and is the *)
(* head of the floating chain; an error raised in the handler is        *)
(* handled by the next outer escape point, never by the same one; and   *)
(* when the handler finishes or fails the head of the floating chain is *)
(* what it was before the handler started.                              *)
C19_HandlerOffTheChain ==
    /\ HandlerRunning =>
          /\ vm.escapePoint = last.throw.prev
          /\ SCM_VM_FLOATING_EP(vm) = last.throw.uep
    /\ (last.i.k = "error" /\ "outer" \in DOMAIN last.throw /\ last.throw.outer # NULL) =>
          /\ IF vm.eps[last.throw.outer].prev = NULL THEN ~Unwinds
             ELSE Unwinds /\ last.throw.uep = vm.eps[last.throw.outer].prev
          /\ \A j \in (last.throw.ntrace + 1)..Len(vm.trace) :
                vm.trace[j] # vm.eps[last.throw.outer].ehandler
    /\ (Unwinds /\ Events(vm, "installed") # {}) =>
          FirstEvent(vm, "installed").floating = last.throw.was
    /\ "started" \in DOMAIN last.throw =>
          \A j \in Events(vm, "protect") :
             ProtectedEp(vm, vm.events[j]) \in { p[1] : p \in last.throw.started }
                => << ProtectedEp(vm, vm.events[j]), vm.events[j].floating >>
                      \in last.throw.started

(* The handler of an escape point inside the body of another has failed *)
(* and the handler of the outer one has finished.                       *)
C19_Witness ==
    /\ Unwinds
    /\ last.throw.outer # NULL
    /\ Events(vm, "installed") # {}
    /\ \E j \in Events(vm, "protect") :
          ProtectedEp(vm, vm.events[j]) = last.throw.outer

C19_WitnessRunning ==
    /\ HandlerRunning
    /\ last.throw.prev # NULL

(* A condition has been raised with an exception handler installed. *)
XRaised == "xh" \in DOMAIN last.throw /\ ~Halted(vm)

(* The exception handler has returned to Scm_VMThrowException in the    *)
(* last step: the entry of the run loop it was applied in has returned. *)
XReturns(v) ==
    { j \in Events(v, "return") :
        /\ v.cstk[v.events[j].at].caller.fn = "xhandler"
        /\ v.cstk[v.events[j].at].frame = last.throw.frame }

(* C20: a condition raised while an exception handler other than the    *)
(* default is installed is passed to that handler; when the handler     *)
(* returns and the condition is serious, vm->exceptionHandler is reset  *)
(* to the default handler and a new error is raised; when the condition *)
(* is not serious the value of the handler is returned to the raiser    *)
(* and the handler stays installed.                                     *)
C20_InstalledExceptionHandler ==
    /\ (XRaised /\ last.i.k \in {"error", "raise"}) =>
          /\ vm.next.op = "scheme"
          /\ vm.base = last.throw.xh
          /\ EnvData(vm, vm.env) = << last.throw.cond >>
          /\ vm.exceptionHandler = last.throw.xh
          /\ vm.cstk[vm.cstack].frame = last.throw.frame
          /\ vm.cstk[vm.cstack].caller.fn = "xhandler"
    /\ (XRaised /\ last.i.k = "values" /\ XReturns(vm) # {}) =>
          IF SCM_SERIOUS_CONDITION_P(last.throw.cond)
          THEN \E j \in Events(vm, "raise") :
                  /\ \A k \in XReturns(vm) : j > k
                  /\ vm.events[j].exceptionHandler = DEFAULT_EXCEPTION_HANDLER
          ELSE /\ Events(vm, "raise") = {}
               /\ vm.next.op = "scheme"
               /\ vm.base = last.throw.base
               /\ vm.pc = last.throw.pc
               /\ vm.cstack = last.throw.cstack
               /\ last.i.args # <<>> => vm.val0 = last.i.args[1]
               /\ vm.exceptionHandler = last.throw.xh

C20_Witness ==
    /\ XRaised /\ last.i.k = "values" /\ XReturns(vm) # {}
    /\ SCM_SERIOUS_CONDITION_P(last.throw.cond)

C20_WitnessContinuable ==
    /\ XRaised /\ last.i.k = "values" /\ XReturns(vm) # {}
    /\ ~SCM_SERIOUS_CONDITION_P(last.throw.cond)

(* The events of an error escape at the entry of the run loop that owns *)
(* the record it arrives at.                                            *)
ArrivedAt(v, did) ==
    { j \in Events(v, did) :
        v.events[j].at # NULL /\ IsRunLoopEntry(v, v.events[j].at) }

(* The escape point of the escape data is one of the record at. *)
OwnLevel(v, e) == e.ep # NULL /\ v.eps[e.ep].cstack = e.at

(* The event j is followed by the arrival of the escape at the record   *)
(* it jumped to.                                                        *)
PassedOn(v, j) ==
    /\ j < Len(v.events)
    /\ v.events[j + 1].did \in {"unwind", "caught", "exit", "protect"}
    /\ v.events[j + 1].at = v.events[j].cstack

(* The dispatch of an ERROR escape at an entry of the run loop, by the  *)
(* address of the host-stack record: caught, with the cont of the       *)
(* escape point installed, when the escape point points to the record   *)
(* of the entry; exit when it does not and the record is the outermost; *)
(* otherwise the record is popped and the escape arrives at the next    *)
(* outer record.                                                        *)
C21_DispatchByRecord ==
    /\ \A j \in ArrivedAt(vm, "caught") :
          /\ OwnLevel(vm, vm.events[j])
          /\ vm.events[j].cont = vm.eps[vm.events[j].ep].cont
          /\ vm.events[j].cstack = vm.events[j].at
    /\ \A j \in ArrivedAt(vm, "exit") :
          /\ ~OwnLevel(vm, vm.events[j])
          /\ vm.cstk[vm.events[j].at].prev = NULL
    /\ \A j \in ArrivedAt(vm, "unwind") :
          /\ ~OwnLevel(vm, vm.events[j])
          /\ vm.cstk[vm.events[j].at].prev # NULL
          /\ vm.events[j].cstack = vm.cstk[vm.events[j].at].prev
          /\ PassedOn(vm, j)
    /\ \A j \in Events(vm, "escape") : PassedOn(vm, j)

(* C21: an ERROR escape that arrives at an entry of the run loop is     *)
(* caught there when the escape point belongs to the host-stack record  *)
(* of the entry, makes the process exit when the record is the          *)
(* outermost, and is passed on to the next outer record otherwise; it   *)
(* is never dropped, and it is caught at no level but that of the host  *)
(* frame the escape point was made in.                                  *)
C21_ErrorEscapeDispatch ==
    /\ C21_DispatchByRecord
    /\ \A j \in ArrivedAt(vm, "caught") :
          vm.events[j].frame = vm.eps[vm.events[j].ep].frame

C21_Witness ==
    /\ ArrivedAt(vm, "unwind") # {}
    /\ ArrivedAt(vm, "caught") # {}

C21_WitnessExit ==
    /\ ArrivedAt(vm, "unwind") # {}
    /\ ArrivedAt(vm, "exit") # {}

(* An error has been raised with no escape point installed, and the     *)
(* default handler is unwinding or has finished.                        *)
NoEscapePoint == "all" \in DOMAIN last.throw

(* The after-thunks of dynamic-winds called since that error was        *)
(* raised, up to the long jump of the default handler.                  *)
FallbackCalls(v) ==
    SelectSeq(SubSeq(v.trace, last.throw.ntrace + 1,
                     IF Events(v, "escape") # {} THEN FirstEvent(v, "escape").ntrace
                     ELSE Len(v.trace)),
              LAMBDA t : IsWindThunk(t) /\ ThunkRole(t) = 3)

(* C22: an error raised with no escape point is reported; the           *)
(* after-thunks of all the dynamic handlers are called, innermost       *)
(* first, and vm->handlers is empty when the default handler long-jumps *)
(* to the current host-stack record; with no record, and whenever the   *)
(* process exits on the way out, the exit status is EX_SOFTWARE.        *)
C22_FallbackExitsWithSoftwareError ==
    NoEscapePoint =>
        /\ last.i.k \in {"error", "hosterror"} =>
              /\ Events(vm, "report") # {}
              /\ FirstEvent(vm, "report").ntrace = last.throw.ntrace
        /\ Len(FallbackCalls(vm)) <= Len(last.throw.all)
        /\ \A j \in DOMAIN FallbackCalls(vm) : FallbackCalls(vm)[j] = last.throw.all[j]
        /\ Events(vm, "escape") # {} =>
              /\ FirstEvent(vm, "escape").ep = NULL
              /\ FirstEvent(vm, "escape").handlers = SCM_NIL
              /\ FirstEvent(vm, "escape").at = last.throw.cstack
              /\ FallbackCalls(vm) = last.throw.all
        /\ vm.exited =>
              /\ vm.exitStatus = EX_SOFTWARE
              /\ FallbackCalls(vm) = last.throw.all
              /\ FirstEvent(vm, "exit").handlers = SCM_NIL
        /\ (last.throw.cstack = NULL /\ Events(vm, "exit") = {}) =>
              /\ ~Halted(vm)
              /\ AfterThunkCalled(vm)

(* The same with the exit status left open. *)
C22_FallbackExits ==
    NoEscapePoint =>
        /\ last.i.k \in {"error", "hosterror"} =>
              /\ Events(vm, "report") # {}
              /\ FirstEvent(vm, "report").ntrace = last.throw.ntrace
        /\ Len(FallbackCalls(vm)) <= Len(last.throw.all)
        /\ \A j \in DOMAIN FallbackCalls(vm) : FallbackCalls(vm)[j] = last.throw.all[j]
        /\ Events(vm, "escape") # {} =>
              /\ FirstEvent(vm, "escape").ep = NULL
              /\ FirstEvent(vm, "escape").handlers = SCM_NIL
              /\ FirstEvent(vm, "escape").at = last.throw.cstack
              /\ FallbackCalls(vm) = last.throw.all
        /\ vm.exited =>
              /\ FallbackCalls(vm) = last.throw.all
              /\ FirstEvent(vm, "exit").handlers = SCM_NIL

C22_Witness ==
    /\ NoEscapePoint /\ vm.exited
    /\ Len(last.throw.all) >= 2
    /\ Events(vm, "escape") # {}

C22_WitnessNoRecord ==
    /\ NoEscapePoint /\ vm.exited
    /\ last.throw.cstack = NULL

(* The escape point of the last error is that of a call of Scm_Apply:   *)
(* its handler is safe_eval_handler.                                    *)
SafeUnwinds ==
    /\ Unwinds
    /\ SCM_SUBRP(vm, last.throw.ehandler)
    /\ vm.heap[-last.throw.ehandler].subr = "safe_eval_handler"

(* The returns of safe_eval_wrap in the last step. *)
SafeReturns(v) == Events(v, "safe")

(* The error escapes that passed the entry of a call of Scm_Apply, or   *)
(* ended the process there.                                             *)
SafePassed(v) ==
    { j \in Events(v, "unwind") \cup Events(v, "exit") :
        v.events[j].at # NULL /\ v.cstk[v.events[j].at].caller.fn = "safe" }

(* C23: Scm_Apply returns the number of values with the values and      *)
(* exception = #f in the packet when the procedure returns, and -1 with *)
(* numResults = 0 and the condition in the packet when an error is      *)
(* raised; no error escape passes its entry; and vm->cstack and         *)
(* vm->escapePoint are after the call what they were before it.         *)
C23_SafeApply ==
    /\ \A j \in SafeReturns(vm) :
          /\ vm.events[j].cstack = vm.events[j].was.cstack
          /\ vm.events[j].escapePoint = vm.events[j].was.escapePoint
          /\ vm.events[j].packet.ret \in {-1} \cup 0..SCM_VM_MAX_VALUES
          /\ vm.events[j].packet.ret >= 0 =>
                /\ vm.events[j].packet.exception = SCM_FALSE
                /\ vm.events[j].packet.numResults = vm.events[j].packet.ret
                /\ Len(vm.events[j].packet.results) = vm.events[j].packet.ret
          /\ vm.events[j].packet.ret = -1 =>
                /\ vm.events[j].packet.exception = ErrorCondition
                /\ vm.events[j].packet.numResults = 0
                /\ "started" \in DOMAIN last.throw
                /\ last.throw.ntrace >= vm.events[j].was.ntrace
    /\ (SafeReturns(vm) # {} /\ last.i.k = "values" /\ ~IsWindThunk(last.pre.base)) =>
          /\ FirstEvent(vm, "safe").packet.ret = Len(last.i.args)
          /\ FirstEvent(vm, "safe").packet.results = last.i.args
    /\ SafePassed(vm) = {}
    /\ (SafeUnwinds /\ Caught(vm)) =>
          \E j \in SafeReturns(vm) :
             /\ vm.events[j].at = CaughtEvent(vm).at
             /\ vm.events[j].packet.ret = -1

(* A partial continuation has been captured in the run. *)
PartialCaptured(v) ==
    \E ep \in DOMAIN v.eps : v.eps[ep].ehandler = SCM_FALSE /\ v.eps[ep].cstack = NULL

(* The same in the runs in which no partial continuation is captured. *)
C23_SafeApplyWithoutCallPC == PartialCaptured(vm) \/ C23_SafeApply

C23_Witness ==
    /\ SafeUnwinds /\ Caught(vm)
    /\ SafeReturns(vm) # {}
    /\ FirstEvent(vm, "safe").packet.ret = -1
    /\ last.throw.thunks # <<>>

C23_WitnessValues ==
    /\ SafeReturns(vm) # {}
    /\ FirstEvent(vm, "safe").packet.ret = 2
    /\ FirstEvent(vm, "safe").was.cstack # NULL

(* Scm_VMGetResult has been called right after a procedure returned the *)
(* values of a list that Scm_VMValues accepted.                         *)
ValuesRead ==
    /\ last.i.k = "get_result"
    /\ last.i.producer.k = "values"
    /\ Len(last.i.producer.args) <= SCM_VM_MAX_VALUES

ResultList(v) == FirstEvent(v, "result").list

(* C24: the values of a list of n values given to Scm_VMValues, n up to *)
(* the cap, are the list Scm_VMGetResult makes: numVals is n, val0 the  *)
(* first value and vals the others in order; with no value numVals is 0 *)
(* and the list is empty; and Scm_VMSetResult leaves numVals = 1.       *)
C24_ValuesRoundTrip ==
    /\ ValuesRead =>
          /\ ListElems(vm, ResultList(vm)) = last.i.producer.args
          /\ Scm_VMGetNumResults(vm) = Len(last.i.producer.args)
          /\ last.i.producer.args = <<>> => ResultList(vm) = SCM_NIL
          /\ last.i.producer.args # <<>> => vm.val0 = last.i.producer.args[1]
          /\ \A j \in 2..Len(last.i.producer.args) :
                vm.vals[j - 1] = last.i.producer.args[j]
    /\ last.i.k = "set_result" =>
          /\ vm.numVals = 1
          /\ vm.val0 = last.i.obj

C24_Witness ==
    /\ ValuesRead
    /\ Len(last.i.producer.args) = SCM_VM_MAX_VALUES
    /\ last.i.producer.args[1] # last.i.producer.args[2]

C24_WitnessEmpty ==
    /\ ValuesRead
    /\ last.i.producer.args = <<>>

C24_WitnessSet ==
    /\ last.i.k = "set_result"
    /\ last.pre.ntrace > 0
    /\ vm.next.op = "host"

(* The last instruction raised an error before anything else. *)
RaisedAtOnce(v) == v.events # <<>> /\ v.events[1].did = "raise"

(* numVals is within the cap and vals has SCM_VM_MAX_VALUES elements;   *)
(* Scm_VMValues accepts the lists of up to SCM_VM_MAX_VALUES values and *)
(* raises an error for the longer ones.                                 *)
C25_ValuesCap ==
    /\ vm.numVals <= SCM_VM_MAX_VALUES
    /\ DOMAIN vm.vals = 1..SCM_VM_MAX_VALUES
    /\ last.i.k = "values" =>
          (RaisedAtOnce(vm) <=> Len(last.i.args) > SCM_VM_MAX_VALUES)

(* C25: Scm_VMValues and the call of a continuation procedure accept    *)
(* any number of values up to SCM_VM_MAX_VALUES and raise an error for  *)
(* more; numVals never exceeds the cap and nothing is written past the  *)
(* end of vals.                                                         *)
C25_OneValueCap ==
    /\ C25_ValuesCap
    /\ last.i.k = "throw" =>
          (Events(vm, "raise") # {} <=> Len(last.i.args) > SCM_VM_MAX_VALUES)

(* What the code does: a continuation procedure accepts one value less. *)
C25_ContinuationCap ==
    last.i.k = "throw" =>
        (Events(vm, "raise") # {} <=> Len(last.i.args) >= SCM_VM_MAX_VALUES)

C25_Witness ==
    /\ last.i.k = "values"
    /\ Len(last.i.args) = SCM_VM_MAX_VALUES
    /\ vm.numVals = SCM_VM_MAX_VALUES

C25_WitnessTooMany ==
    /\ last.i.k = "values"
    /\ RaisedAtOnce(vm)

(* The registers and the stack of a VM. *)
Regs(v) ==
    [ pc |-> v.pc, sp |-> v.sp, argp |-> v.argp, env |-> v.env, cont |-> v.cont,
      base |-> v.base, val0 |-> v.val0, numVals |-> v.numVals, vals |-> v.vals,
      stack |-> v.stack, heap |-> v.heap ]

(* C26: when attentionRequest is set at an instruction boundary, the    *)
(* next thing the interpreter does is to process the queued requests,   *)
(* in the state the VM was in at that boundary: no instruction is       *)
(* fetched and dispatched before.                                       *)
C26_AttentionObserved ==
    [][(AttentionSeen(vm) /\ nsteps' = nsteps + 1) =>
          /\ vm'.events # <<>>
          /\ vm'.events[1].did = "process"
          /\ Regs(vm'.events[1].was) = Regs(vm)
          /\ last'.i.k = "process_queue"]_vars

(* The queue has been processed with nothing to run, ...                *)
C26_Witness ==
    /\ last.i.k = "process_queue"
    /\ Events(vm, "restored") # {}
    /\ vm.next.op = "scheme"

(* ... and the signal handler runs before the next instruction.         *)
C26_WitnessHandler ==
    /\ last.i.k = "process_queue"
    /\ vm.next.op = "scheme"
    /\ vm.base = SignalHandler

(* What the interrupted computation goes on with, whatever the          *)
(* addresses of the frames.                                             *)
Interrupted(v) ==
    [ pc |-> v.pc, base |-> v.base,
      val0 |-> Dec(v, v.val0, Fuel(v)), numVals |-> v.numVals,
      vals |-> [i \in 1..(v.numVals - 1) |-> Dec(v, v.vals[i], Fuel(v))],
      args |-> DecSeq(v, RdSeq(v, v.argp, v.sp - v.argp)),
      env |-> EnvDec(v, v.env),
      cont |-> ContDec(v, v.cont) ]

(* No request is processed after the j-th event of the last step. *)
LastResumption(v, j) ==
    \A k \in DOMAIN v.events : k > j => v.events[k].did # "process"

(* C27: when process_queued_requests_cc has run and the frame that      *)
(* process_queue pushed is popped, val0, numVals, vals[0..numVals-2],   *)
(* pc, base, the argument block, the environments and the continuation  *)
(* are those of the interruption; the interpreter pops that frame next, *)
(* and goes on from the interrupted instruction boundary.               *)
C27_RequestsTransparent ==
    \A j \in DOMAIN vm.events :
        vm.events[j].did = "restored" =>
            LET e == vm.events[j] IN
            /\ e.now.pc = PC_TO_RETURN
            /\ e.now.cont # NULL
            /\ ~BOUNDARY_FRAME_P(e.now, e.now.cont)
            /\ Interrupted(POP_CONT(e.now).v) = Interrupted(e.was)
            /\ (/\ e.was.next.op = "scheme"
                /\ vm.next.op = "scheme"
                /\ ~Halted(vm)
                /\ LastResumption(vm, j))
               => Interrupted(vm) = Interrupted(e.was)

(* The signal handler has returned two values, other than the two of    *)
(* the interrupted computation, which goes on.                          *)
C27_Witness ==
    \E j \in DOMAIN vm.events :
        /\ vm.events[j].did = "restored"
        /\ vm.events[j].was.numVals = 3
        /\ vm.events[j].was.next.op = "scheme"
        /\ vm.next.op = "scheme"
        /\ SignalHandler \in Range(vm.trace)
        /\ last.i.k = "values"
        /\ Len(last.i.args) = 2
        /\ vm.numVals = 3

(* The stack was promoted while the handler ran, with an argument block *)
(* of the interrupted computation in it.                                *)
C27_WitnessPromoted ==
    \E j \in DOMAIN vm.events :
        /\ vm.events[j].did = "restored"
        /\ vm.events[j].was.sp > vm.events[j].was.argp
        /\ IN_STACK_P(vm, vm.events[j].was.cont)
        /\ HEAP_P(vm.cont)
        /\ vm.next.op = "scheme"
        /\ ~Halted(vm)

(* The VM has stopped and waits. *)
Stopped(v) ==
    /\ v.state = "STOPPED"
    /\ ~v.stopRequest
    /\ v.next.op = "stop_wait"
    /\ v.vmlock # "vm"

(* C28: the interpreter tests stopRequest again with vmlock locked; if  *)
(* it is set, it clears it, sets the state to STOPPED and broadcasts    *)
(* cond, and executes nothing while the state is STOPPED; if the        *)
(* request was cancelled it unlocks and goes on without stopping.       *)
C28_StopSafety ==
    /\ [](vm.next.op = "stop_locked" => vm.vmlock = "vm")
    /\ [](vm.state = "STOPPED" => Stopped(vm))
    /\ [][last'.i.k = "stop_check" =>
             /\ vm.vmlock = "vm"
             /\ IF vm.stopRequest
                THEN Stopped(vm') /\ vm'.cond = {"vm"} /\ vm'.vmlock = "unlocked"
                ELSE /\ vm'.state = "RUNNABLE"
                     /\ vm'.vmlock = "unlocked"
                     /\ "vm" \notin vm'.cond
                     /\ vm'.next.op \notin {"stop_lock", "stop_locked", "stop_wait",
                                             "stop_woken"}]_vars
    /\ [][(vm.state = "STOPPED" /\ vm'.state = "STOPPED") =>
             nsteps' = nsteps /\ Regs(vm') = Regs(vm) /\ vm'.trace = vm.trace]_vars
    /\ [][(vm.state # "STOPPED" /\ vm'.state = "STOPPED") =>
             last'.i.k = "stop_check"]_vars
    /\ [][(vm.state = "STOPPED" /\ vm'.state # "STOPPED") =>
             last'.i.k = "controller_resume"]_vars
    /\ [](vm.next.op = "stop_woken" => vm.vmlock = "vm" /\ vm.state # "STOPPED")

(* C28: ... and once the controller has changed the state, the          *)
(* interpreter returns from its wait and goes on.                       *)
C28_StopRequest ==
    /\ C28_StopSafety
    /\ (vm.next.op = "stop_wait" /\ vm.state # "STOPPED")
           ~> (vm.next.op \notin {"stop_wait", "stop_woken"})

(* The VM has stopped, the controller has resumed it and it has gone on. *)
C28_Witness ==
    /\ last.i.k = "stop_return"
    /\ Events(vm, "resumed") # {}
    /\ vm.next.op = "scheme"
    /\ vm.state = "RUNNABLE"

(* The request was cancelled after the VM had seen it: the VM goes on.  *)
C28_WitnessCancelled ==
    /\ last.i.k = "stop_check"
    /\ Events(vm, "unstopped") # {}
    /\ vm.next.op = "scheme"

(* The live VMs that are between a PORT_LOCK that has completed and the *)
(* end of the PORT_UNLOCK that matches it.                              *)
Holders == { t \in Instances : Live(t) /\ threads[t].locks > 0 }

(* C29: at most one live VM holds the port, lockOwner is that VM, and   *)
(* lockOwner never changes from a live VM to another VM: it becomes     *)
(* NULL first.                                                          *)
C29_PortLockExclusive ==
    /\ [](Cardinality(Holders) <= 1)
    /\ [](\A t \in Holders : port.lockOwner = t)
    /\ [][(port.lockOwner # NULL /\ Live(port.lockOwner)) =>
             port'.lockOwner \in {port.lockOwner, NULL}]_vars

(* A VM has the port while two others wait for it in PORT_LOCK. *)
C29_Witness ==
    /\ Holders # {}
    /\ Cardinality({ t \in Instances :
                        Live(t) /\ threads[t].pc \in {"Scm_YieldCPU", "FASTLOCK_LOCK"} }) >= 2

(* A VM has got the port that another one has unlocked. *)
C29_WitnessPassed ==
    /\ Holders # {}
    /\ \E t \in Instances :
          /\ last.i.k = "PORT_LOCK" /\ last.i.vm = t /\ last.i.at = "lockOwner == vm"
          /\ t \in Holders
          /\ threads[t].owner__ = NULL
    /\ \E u \in Instances \ Holders : Live(u) /\ threads[u].owner__ # NULL

(* C30: a VM that owns the port locks it again at once, without the     *)
(* fastlock and without yielding: lockCount is incremented.  PORT_UNLOCK *)
(* decrements lockCount, never touches the fastlock and clears          *)
(* lockOwner only when the count is zero: a VM that is not inside       *)
(* PORT_LOCK or PORT_UNLOCK and has k locks to unlock owns the port     *)
(* with lockCount = k, so the port is free exactly at the k-th unlock,  *)
(* and no other VM gets it before.                                      *)
C30_PortLockReentrant ==
    /\ [](\A t \in Instances :
            (Live(t) /\ threads[t].pc = "idle") =>
                IF threads[t].locks > 0
                THEN port.lockOwner = t /\ port.lockCount = threads[t].locks
                ELSE port.lockOwner # t)
    /\ [](Cardinality(Holders) <= 1)
    /\ [][\A t \in Instances :
             (/\ threads[t].pc = "PORT_LOCK" /\ port.lockOwner = t
              /\ threads'[t] # threads[t]) =>
                 /\ threads'[t].pc = "lockCount++"
                 /\ port' = port]_vars
    /\ [][\A t \in Instances :
             (threads[t].pc = "lockCount++" /\ threads'[t] # threads[t]) =>
                 /\ threads'[t].pc = "idle"
                 /\ threads'[t].locks = threads[t].locks + 1
                 /\ port' = [port EXCEPT !.lockCount = @ + 1]]_vars
    /\ [](\A t \in Instances :
            (Live(t) /\ threads[t].pc \in {"PORT_LOCK", "lockCount++"} /\ port.lockOwner = t)
                => PORT_LOCK(port, threads, t) # {})
    /\ [][last'.i.k = "PORT_UNLOCK" =>
             /\ port'.lock = port.lock
             /\ IF last'.i.at = "PORT_UNLOCK"
                THEN /\ port'.lockCount = port.lockCount - 1
                     /\ port'.lockOwner = port.lockOwner
                     /\ (threads'[last'.i.vm].pc = "lockOwner = NULL") <=> (port'.lockCount = 0)
                ELSE /\ port'.lockOwner = NULL
                     /\ port.lockCount = 0
                     /\ port'.lockCount = 0]_vars

(* A VM has locked the port twice and unlocked it once: it owns it. *)
C30_Witness ==
    \E t \in Instances :
        /\ last.i.k = "PORT_UNLOCK" /\ last.i.vm = t
        /\ threads[t].pc = "idle"
        /\ threads[t].locks = 1
        /\ port.lockOwner = t
        /\ \E u \in Instances : u # t /\ threads[u].pc = "Scm_YieldCPU"

(* The second unlock has freed the port. *)
C30_WitnessFree ==
    \E t \in Instances :
        /\ last.i.k = "PORT_UNLOCK" /\ last.i.vm = t /\ last.i.at = "lockOwner = NULL"
        /\ port.lockOwner = NULL
        /\ threads[t].locks = 0
----------------------------------------------------------------------------
(* PORT_SAFE_CALL. *)

(* The events of the last instruction that tell `did'. *)
PortEvents(did) == { j \in DOMAIN vm.events : vm.events[j].did = did }

(* The calls of PORT_UNLOCK, before the event j, at the record of j. *)
UnlocksBefore(j) ==
    { k \in 1..(j - 1) : /\ vm.events[k].did = "unlock"
                          /\ vm.events[k].at = vm.events[j].at }

(* The record that PORT_SAFE_CALL made is popped when the event j is    *)
(* told, and nothing has happened since SCM_WHEN_ERROR.                 *)
PoppedAt(j) ==
    /\ j > 1
    /\ vm.events[j - 1].did = "when_error"
    /\ vm.events[j - 1].at = vm.events[j].at
    /\ vm.events[j].cstack = vm.events[j - 1].prev

(* PORT_SAFE_CALL ends without an error: the port is as the enclosing   *)
(* PORT_LOCK left it, and the record is popped.                         *)
SafeCallEnds ==
    \A j \in PortEvents("safe_call_end") :
        /\ vm.events[j].port = vm.events[j].locked
        /\ UnlocksBefore(j) = {}
        /\ vm.events[j].cstack = vm.events[j].prev

(* C31 as stated: when the call under PORT_SAFE_CALL raises an error,   *)
(* PORT_UNLOCK(p) is executed exactly once before the error is passed   *)
(* on, lockCount is then what it was before the enclosing PORT_LOCK,    *)
(* lockOwner is NULL if that lock was the outermost one, and the record *)
(* is popped; when the call returns PORT_SAFE_CALL does not unlock and  *)
(* the record is popped.                                                *)
C31_CountRestored ==
    /\ \A j \in PortEvents("when_error") :
          LET e == vm.events[j] IN
          /\ Cardinality(UnlocksBefore(j)) = 1
          /\ e.port.lockCount = e.before.lockCount
          /\ e.before.lockOwner # 1 => e.port.lockOwner = NULL
    /\ \A j \in PortEvents("next_handler") : PoppedAt(j)
    /\ SafeCallEnds

(* C31, amended: when the call under PORT_SAFE_CALL raises an error,    *)
(* PORT_UNLOCK(p) is executed exactly once before the error is passed   *)
(* on, which undoes the enclosing PORT_LOCK: the port is as it was      *)
(* before that lock when the VM held it already, and otherwise          *)
(* lockOwner is NULL and lockCount is 0, whatever count a VM that has   *)
(* ended had left; the record is popped; when the call returns          *)
(* PORT_SAFE_CALL does not unlock and the record is popped.             *)
C31_PortSafeCall ==
    /\ \A j \in PortEvents("when_error") :
          LET e == vm.events[j] IN
          /\ Cardinality(UnlocksBefore(j)) = 1
          /\ e.port.lockCount = e.locked.lockCount - 1
          /\ IF e.before.lockOwner = 1 THEN e.port = e.before
             ELSE e.port.lockOwner = NULL /\ e.port.lockCount = 0
    /\ \A j \in PortEvents("next_handler") : PoppedAt(j)
    /\ SafeCallEnds

(* An error has passed through PORT_SAFE_CALL, which had locked a port  *)
(* nobody held, and has gone on to the next handler.                    *)
C31_Witness ==
    \E j \in PortEvents("when_error") :
        /\ vm.events[j].before = Scm_MakePort
        /\ j + 1 \in PortEvents("next_handler")
        /\ ~vm.exited

(* An error has passed through two nested PORT_SAFE_CALLs. *)
C31_WitnessNested ==
    \E j, k \in PortEvents("when_error") :
        /\ j < k
        /\ vm.events[j].before.lockOwner = 1
        /\ vm.events[k].before.lockOwner # 1

(* The call under PORT_SAFE_CALL has returned. *)
C31_WitnessReturned ==
    \E j \in PortEvents("safe_call_end") : vm.events[j].locked.lockCount = 2

(* An error has passed through PORT_SAFE_CALL on a port that a VM whose *)
(* thread has ended had left locked.                                    *)
C31_WitnessDeadOwner ==
    \E j \in PortEvents("when_error") : vm.events[j].before.lockOwner = 2
(* A continuation called under PORT_SAFE_CALL has passed through it to  *)
(* a place outside.                                                     *)
C31_WitnessThrow ==
    /\ last.i.k = "throw"
    /\ PortEvents("when_error") # {}
    /\ ~vm.exited /\ ~vm.failed
----------------------------------------------------------------------------
(* Scm_AttachVM. *)

(* The threads whose key vm_key holds the VM a. *)
ThreadsOf(a) == { t \in OsThreads : threads[t].theVM = a }

(* The last step was the return of a call of Scm_AttachVM with r. *)
AttachReturned(r) ==
    /\ last.i.k = "attach"
    /\ last.pre.th.pc \in AttachSteps
    /\ threads[last.i.thread].pc = "idle"
    /\ threads[last.i.thread].ret = r

(* A call of Scm_AttachVM that returns FALSE has changed nothing, and a *)
(* call returns TRUE only after it has found the VM without a thread    *)
(* and the calling thread without a VM, and leaves the VM RUNNABLE,     *)
(* with the calling thread as its thread, and the VM in the thread's    *)
(* key.                                                                 *)
C32_AttachContract ==
    /\ \A t \in OsThreads :
          threads[t].pc \in AttachSteps \ {"Scm_AttachVM", "theVM != NULL",
                                           "pthread_setspecific"}
              => threads[t].theVM = threads[t].arg
    /\ AttachReturned(FALSE) =>
          /\ VMs[last.i.vm].thread = last.pre.thread
          /\ VMs[last.i.vm].state = last.pre.state
          /\ threads[last.i.thread].theVM = last.pre.th.theVM
    /\ AttachReturned(TRUE) =>
          /\ VMs[last.i.vm].state = "RUNNABLE"
          /\ threads[last.i.thread].theVM = last.i.vm
          /\ VMs[last.i.vm].thread \in ThreadsOf(last.i.vm)

(* C32: the binding between VMs and OS threads is one-to-one under any  *)
(* interleaving of Scm_AttachVM calls from several threads: no VM is    *)
(* ever attached to two threads, and no thread ever has two VMs.        *)
C32_OneToOne ==
    /\ \A a \in DOMAIN VMs : Cardinality(ThreadsOf(a)) <= 1
    /\ \A t \in OsThreads :
          Cardinality({ a \in DOMAIN VMs : VMs[a].thread = t }) <= 1
    /\ \A a \in DOMAIN VMs, t \in OsThreads :
          (VMs[a].thread = t /\ threads[t].pc = "idle") => threads[t].theVM = a

(* Two calls of Scm_AttachVM on one VM have both returned TRUE. *)
C32_WitnessBoth ==
    \E t, u \in OsThreads :
        /\ t # u
        /\ threads[t].pc = "idle" /\ threads[t].ret /\ threads[t].arg = 1
        /\ threads[u].pc = "idle" /\ threads[u].ret /\ threads[u].arg = 1
----------------------------------------------------------------------------
(* The return operation. *)

(* The VM after one turn of run_loop that executes RET (RETURN_OP), for *)
(* the VM v at an instruction boundary.                                 *)
Returned(v) == run_loop(ToLoop([v EXCEPT !.pc = PC_TO_RETURN]))

(* All the registers of the VM. *)
AllRegisters(v) ==
    [ sp |-> v.sp, argp |-> v.argp, env |-> v.env, cont |-> v.cont,
      pc |-> v.pc, base |-> v.base, val0 |-> v.val0, numVals |-> v.numVals,
      vals |-> v.vals ]

(* The registers env, base and cont of r are those that the frame c of  *)
(* v saved.                                                             *)
FrameRestored(v, c, r) ==
    /\ r.env = CGet(v, c, "env")
    /\ r.base = CGet(v, c, "base")
    /\ r.cont = CGet(v, c, "prev")

(* The frame c of v is the frame of a C continuation. *)
IsCCont(v, c) == CGet(v, c, "argp") = NULL

(* Return with no continuation, or with a boundary frame on top. *)
ReturnsToHost(v) ==
    LET r == Returned(v) IN
    /\ r.next.op = "user_eval_inner_return"
    /\ AllRegisters(r) = AllRegisters([v EXCEPT !.pc = PC_TO_RETURN])
    /\ r.stack = v.stack /\ r.heap = v.heap

(* Return to a Scheme frame in the stack. *)
ReturnsInStack(v) ==
    LET c == v.cont
        r == Returned(v)
    IN  /\ r.next.op = "loop"
        /\ FrameRestored(v, c, r)
        /\ r.pc = CGet(v, c, "pc")
        /\ r.argp = CGet(v, c, "argp")
        /\ r.sp = r.argp + CGet(v, c, "size")
        /\ r.stack = v.stack /\ r.heap = v.heap
        /\ r.val0 = v.val0

(* Return to a Scheme frame in the heap. *)
ReturnsFromHeap(v) ==
    LET c == v.cont
        r == Returned(v)
        size == v.heap[-c].size
    IN  /\ r.next.op = "loop"
        /\ FrameRestored(v, c, r)
        /\ r.pc = v.heap[-c].pc
        /\ r.argp = v.stackBase
        /\ r.sp = v.stackBase + size
        /\ Len(v.heap[-c].data) = size
        /\ \A j \in 1..size : r.stack[v.stackBase + j - 1] = v.heap[-c].data[j]
        /\ \A a \in DOMAIN v.stack : a >= r.sp => r.stack[a] = v.stack[a]
        /\ r.heap = v.heap
        /\ r.val0 = v.val0

(* Return to a C continuation: the callback is about to be called, once. *)
ReturnsToCCont(v) ==
    LET c == v.cont
        r == Returned(v)
        size == CGet(v, c, "size")
    IN  /\ r.next.op = "CALL_CCONT"
        /\ r.next.fr[1] = CGet(v, c, "pc")
        /\ r.next.fr[2] = v.val0
        /\ Len(r.next.fr[3]) = size
        /\ \A j \in 1..size :
              r.next.fr[3][j] = IF HEAP_P(c) THEN v.heap[-c].data[j]
                                ELSE v.stack[c + CONT_FRAME_SIZE + j - 1]
        /\ FrameRestored(v, c, r)
        /\ r.pc = PC_TO_RETURN
        /\ r.sp = (IF IN_STACK_P(v, c) THEN c ELSE v.sp)
        /\ r.argp = r.sp
        /\ r.stack = v.stack /\ r.heap = v.heap

(* C33: return pops the current continuation correctly in all cases:    *)
(* with cont NULL or a boundary frame it returns to the host leaving    *)
(* every register unchanged; for a Scheme frame in the stack env, base, *)
(* pc and cont are restored and argp and sp are restored to the saved   *)
(* argument block; for a Scheme frame in the heap the saved arguments   *)
(* are copied in order to the stack base, with argp = stackBase and     *)
(* sp = stackBase + size; for a C continuation the callback is called   *)
(* once with val0 and a copy of the size words of the frame, after the  *)
(* registers were restored and pc was set to the return stub.           *)
C33_ReturnPopsCont ==
    (vm.next.op = "scheme" /\ ~Halted(vm)) =>
        IF vm.cont = NULL \/ BOUNDARY_FRAME_P(vm, vm.cont) THEN ReturnsToHost(vm)
        ELSE IF IsCCont(vm, vm.cont) THEN ReturnsToCCont(vm)
        ELSE IF IN_STACK_P(vm, vm.cont) THEN ReturnsInStack(vm)
        ELSE ReturnsFromHeap(vm)

(* RET has returned to a Scheme frame in the heap that had saved        *)
(* arguments, which are in the stack again.                             *)
C33_Witness ==
    /\ last.i.k = "return"
    /\ HEAP_P(last.pre.cont)
    /\ ~IsCCont(vm, last.pre.cont)
    /\ vm.cont = vm.heap[-last.pre.cont].prev
    /\ vm.argp = vm.stackBase
    /\ vm.sp > vm.stackBase
    /\ RdSeq(vm, vm.stackBase, vm.sp - vm.stackBase) = vm.heap[-last.pre.cont].data

(* RET is about to return to a C continuation in the stack, in the      *)
(* heap, to a Scheme frame in the stack, to the host.                   *)
C33_WitnessCContInStack ==
    /\ vm.next.op = "scheme" /\ vm.cont # NULL
    /\ IsCCont(vm, vm.cont) /\ IN_STACK_P(vm, vm.cont) /\ CGet(vm, vm.cont, "size") > 0
    /\ vm.sp > vm.cont + CONT_FRAME_SIZE + CGet(vm, vm.cont, "size")

C33_WitnessCContInHeap ==
    /\ vm.next.op = "scheme" /\ vm.cont # NULL
    /\ IsCCont(vm, vm.cont) /\ HEAP_P(vm.cont) /\ CGet(vm, vm.cont, "size") > 0
    /\ vm.sp > vm.stackBase

C33_WitnessInStack ==
    /\ vm.next.op = "scheme" /\ vm.cont # NULL
    /\ ~IsCCont(vm, vm.cont) /\ IN_STACK_P(vm, vm.cont)
    /\ ~BOUNDARY_FRAME_P(vm, vm.cont)
    /\ CGet(vm, vm.cont, "size") > 0
    /\ vm.sp > vm.cont + CONT_FRAME_SIZE

C33_WitnessHost ==
    /\ vm.next.op = "scheme" /\ vm.cont # NULL
    /\ BOUNDARY_FRAME_P(vm, vm.cont)
    /\ vm.sp > vm.argp
----------------------------------------------------------------------------
(* The entry of the run loop. *)

(* The returns of user_eval_inner during the last instruction. *)
Balances == { j \in DOMAIN vm.events : vm.events[j].did = "return" }

(* The unfinished argument block of the frozen VM f. *)
ArgBlock(f) == DecSeq(f, RdSeq(f, f.argp, f.sp - f.argp))

(* C34: the entry of the run loop is balanced: when user_eval_inner     *)
(* returns, vm->cstack is the record that was current at its entry,     *)
(* vm->cont is the continuation in force at the entry, the unfinished   *)
(* argument block of the entry is the argument block again, and pc is   *)
(* the pc of the entry, also after restarts at its level caused by CONT *)
(* or ERROR escapes.  Frames and blocks are compared by content: their  *)
(* addresses change when the stack is promoted.                         *)
C34_EntryBalanced ==
    /\ \A j \in Balances :
          LET e == vm.events[j] IN
          /\ e.now.cstack = e.entry.cstack
          /\ e.now.pc = e.entry.pc
          /\ ContDec(e.now, e.now.cont) = ContDec(e.entry, e.entry.cont)
          /\ ArgBlock(e.now) = ArgBlock(e.entry)

(* When user_eval_inner returns, the host-stack record it pushed is     *)
(* popped and pc is the pc of the entry.                                *)
C34_RecordPopped ==
    \A j \in Balances :
        /\ vm.events[j].now.cstack = vm.events[j].entry.cstack
        /\ vm.events[j].now.pc = vm.events[j].entry.pc

(* user_eval_inner has returned after two calls of continuations whose  *)
(* host-stack record is gone.                                           *)
C34_WitnessGhost ==
    /\ Balances # {}
    /\ last.i.k = "values"
    /\ last.throw.ep # NULL /\ ~last.throw.live
    /\ vm.next.op = "host"
----------------------------------------------------------------------------
(* The compaction of the stack. *)

(* The VM W is the VM V after the compaction step of save_stack: the    *)
(* argument block of V is at the stack base, word for word, and all     *)
(* the stack above it is null.                                          *)
Compacted(v, w) ==
    /\ w.argp = w.stackBase
    /\ w.sp = w.stackBase + (v.sp - v.argp)
    /\ RdSeq(w, w.argp, w.sp - w.argp) = RdSeq(v, v.argp, v.sp - v.argp)
    /\ \A a \in DOMAIN w.stack : a >= w.sp => w.stack[a] = NULL
    /\ ~w.overflow

(* C35: the compaction step of save_stack moves the current argument    *)
(* block to the stack base with its length and the order and values of  *)
(* its elements: afterwards argp = stackBase, sp = stackBase + (old sp  *)
(* - old argp), and every stack cell from sp up to stackEnd is null.    *)
(* It is stated of the save_stack just executed, against the registers  *)
(* before it, and of the step applied to any state reached after its    *)
(* save_cont.                                                           *)
C35_Compaction ==
    /\ (last.i.k = "save_stack" /\ ~Halted(vm)) =>
          /\ vm.argp = vm.stackBase
          /\ vm.sp = vm.stackBase + (last.pre.sp - last.pre.argp)
          /\ \A a \in DOMAIN vm.stack : a >= vm.sp => vm.stack[a] = NULL
    /\ (vm.next.op = "scheme" /\ ~Halted(vm)) =>
          /\ save_cont(vm).sp = vm.sp /\ save_cont(vm).argp = vm.argp
          /\ Compacted(save_cont(vm), save_stack_move(save_cont(vm)))

(* save_stack has moved an argument block of two different words down   *)
(* to the stack base, over frames that were promoted to the heap.       *)
C35_Witness ==
    /\ last.i.k = "save_stack"
    /\ last.pre.argp > vm.stackBase
    /\ last.pre.sp >= last.pre.argp + 2
    /\ last.pre.cont # NULL /\ IN_STACK_P(vm, last.pre.cont)
    /\ vm.argp = vm.stackBase
    /\ vm.sp = vm.stackBase + (last.pre.sp - last.pre.argp)
    /\ Rd(vm, vm.stackBase) # Rd(vm, vm.stackBase + 1)
----------------------------------------------------------------------------
(* The promotion of environment frames. *)

(* The frames save_env copies when called with E: the frames in the     *)
(* stack from E along the up links, up to the first frame that is in    *)
(* the heap or forwarded.                                               *)
RECURSIVE EnvRunN(_, _, _)
EnvRunN(v, e, n) ==
    IF n = 0 \/ ~IN_STACK_P(v, e) \/ EGet(v, e, "size") < 0 THEN <<>>
    ELSE << e >> \o EnvRunN(v, EGet(v, e, "up"), n - 1)

EnvRun(v, e) == EnvRunN(v, e, Fuel(v))

(* The heap location of the frame E at which save_env stops. *)
HeapLocation(v, e) == IF ForwardedInStackEnv(v, e) THEN FORWARDED_ENV(v, e) ELSE e

(* The header cells of the frames of the run: the only stack cells      *)
(* save_env writes.                                                     *)
EnvHeaders(run) == { run[i] + o : i \in DOMAIN run, o \in 0..(ENV_HDR_SIZE - 1) }

(* save_env(V, E) returned SE, where E is a frame in the stack that is  *)
(* not forwarded: the frames of the run have heap copies, allocated in  *)
(* the order of the run after the blocks of V, and forward to them.     *)
SaveEnvCopied(v, e, se) ==
    LET run == EnvRun(v, e)
        n == Len(run)
        copy(i) == -(Len(v.heap) + i)
    IN  /\ n >= 1
        /\ se.r = copy(1)
        /\ Len(se.v.heap) = Len(v.heap) + n
        /\ \A k \in DOMAIN v.heap : se.v.heap[k] = v.heap[k]
        /\ \A a \in DOMAIN v.stack \ EnvHeaders(run) : se.v.stack[a] = v.stack[a]
        /\ [se.v EXCEPT !.stack = v.stack, !.heap = v.heap] = v
        /\ \A i \in 1..n :
              LET h == se.v.heap[-copy(i)]
                  size == EGet(v, run[i], "size")
                  up == EGet(v, run[i], "up")
              IN  /\ h.size = size
                  /\ h.data = RdSeq(v, run[i] - size, size)
                  /\ h.info = EGet(v, run[i], "info")
                  /\ h.up = IF i < n THEN copy(i + 1) ELSE HeapLocation(v, up)
                  /\ (i < n) = (IN_STACK_P(v, up) /\ ~FORWARDED_ENV_P(v, up))
                  /\ EGet(se.v, run[i], "size") = -1
                  /\ EGet(se.v, run[i], "up") = copy(i)

(* The frames save_env is applied to: the frames it is called with,     *)
(* and the frame vm->env was before a promotion, which is forwarded.    *)
SaveEnvInputs ==
    SaveEnvArgs(vm) \cup
    (IF last.i.k \in {"get_env", "save_cont"} THEN { last.pre.env } ELSE {})

(* The VM in save_cont when the chain of vm->env has been saved. *)
AfterEnvSaved(v) == save_cont_set_vm_env(save_env(v, v.env))

(* save_env applied to E returns the heap frame that corresponds to E. *)
ReturnsHeapFrame(e) == save_env(vm, e).r = HeapLocation(vm, e)

C36_WitnessForwarded ==
    /\ ~Halted(vm)
    /\ \E e \in SaveEnvInputs : ForwardedInStackEnv(vm, e) /\ save_env(vm, e).r = NULL

C36_WitnessHeap ==
    /\ ~Halted(vm)
    /\ \E e \in SaveEnvArgs(vm) : HEAP_P(e)

(* In save_cont, after the chain of vm->env has been saved, a          *)
(* continuation frame in the stack has an env that is forwarded.        *)
C36_WitnessContEnvForwarded ==
    /\ ~Halted(vm)
    /\ \E c \in Range(ContChain(vm, vm.cont)) :
          /\ IN_STACK_P(vm, c)
          /\ ForwardedInStackEnv(AfterEnvSaved(vm), CGet(vm, c, "env"))
          /\ HEAP_P(CGet(save_cont_env(AfterEnvSaved(vm), c), c, "env"))
----------------------------------------------------------------------------
(* The forms that install an escape point. *)

(* The after-thunk of the innermost dynamic-wind whose body the running *)
(* code is in at this entry of the run loop, not as a thunk of a        *)
(* reinstatement: the first frame of dynwind_body_cc in the             *)
(* continuation before any boundary frame and any frame of              *)
(* throw_cont_cc; NULL when there is none.                              *)
RECURSIVE InnermostAfterN(_, _, _)
InnermostAfterN(v, c, n) ==
    IF c = NULL \/ n = 0 \/ BOUNDARY_FRAME_P(v, c) THEN NULL
    ELSE IF CGet(v, c, "argp") = NULL /\ CGet(v, c, "pc") = throw_cont_cc_addr THEN NULL
    ELSE IF CGet(v, c, "argp") = NULL /\ CGet(v, c, "pc") = dynwind_body_cc_addr
         THEN ContData(v, c)[1]
    ELSE InnermostAfterN(v, CGet(v, c, "prev"), n - 1)

InnermostAfter(v) == InnermostAfterN(v, v.cont, Fuel(v))

IsDiscard(v, p) == SCM_SUBRP(v, p) /\ v.heap[-p].subr = "discard_ehandler"

(* The escape point of the form whose body the running code is in, NULL *)
(* when the innermost form is not one of the two.                       *)
BodyOf(v) ==
    IF v.next.op = "scheme" /\ ~Halted(v) /\ IsDiscard(v, InnermostAfter(v))
    THEN v.heap[-InnermostAfter(v)].data
    ELSE NULL

(* The escape point is removed: the state of installation is back. *)
Removed(v, ep, escapePoint, exceptionHandler) ==
    /\ escapePoint = v.eps[ep].prev
    /\ exceptionHandler = v.eps[ep].xhandler

(* While the body runs the escape point is the innermost one and the    *)
(* exception handler is the default handler.                            *)
Installed ==
    BodyOf(vm) # NULL =>
        /\ vm.escapePoint = BodyOf(vm)
        /\ vm.exceptionHandler = DEFAULT_EXCEPTION_HANDLER

(* The body returns: the form finishes. *)
BodyReturns(v) == Exec(v, [k |-> "values", args |-> ValueArgs(1)])

(* The form is not in tail position: the frame under the frame of      *)
(* dynwind_body_cc is a frame of Scheme code, which runs next when the  *)
(* form has finished.                                                   *)
FormReturnsToScheme(v) ==
    /\ TopCC(v) = dynwind_body_cc_addr
    /\ LET c == CGet(v, v.cont, "prev")
       IN  c # NULL /\ ~BOUNDARY_FRAME_P(v, c) /\ CGet(v, c, "argp") # NULL

(* When the body returns, the escape point is removed. *)
RemovedAtReturn ==
    (BodyOf(vm) # NULL /\ FormReturnsToScheme(vm) /\ ~Halted(BodyReturns(vm))) =>
        LET w == BodyReturns(vm)
        IN  /\ w.next.op = "scheme"
            /\ w.cont = CGet(vm, CGet(vm, vm.cont, "prev"), "prev")
            /\ Removed(w, BodyOf(vm), w.escapePoint, w.exceptionHandler)

(* When an error was handled by the escape point, that is, when the     *)
(* entry of the run loop installs the continuation of the escape point, *)
(* the escape point is removed.                                         *)
RemovedWhenHandled ==
    \A j \in Events(vm, "caught") :
        Removed(vm, vm.events[j].ep, vm.events[j].escapePoint,
                vm.events[j].exceptionHandler)

(* C37: with-error-handler and with-guard-handler install and remove    *)
(* their escape point symmetrically: while the body runs                *)
(* vm->escapePoint is the new escape point and vm->exceptionHandler is  *)
(* the default handler, also when the body was entered again through a  *)
(* continuation captured inside it; when the form finishes, by the      *)
(* return of the body or because an error was handled by its escape     *)
(* point, vm->escapePoint is the prev of the escape point and           *)
(* vm->exceptionHandler is the handler in force at the installation.    *)
C37_SymmetricInstallRemove ==
    /\ Installed
    /\ RemovedAtReturn
    /\ RemovedWhenHandled

(* The body was entered again from outside the form, through a         *)
(* continuation captured inside it: the escape point is the innermost  *)
(* one again.                                                          *)
C37_WitnessReentered ==
    /\ last.i.k = "resume"
    /\ BodyOf(vm) # NULL
    /\ vm.escapePoint = BodyOf(vm)
    /\ last.throw.current # last.throw.target

(* The body was entered again from the handler of the form. *)
C37_WitnessFromHandler ==
    /\ last.i.k = "resume"
    /\ BodyOf(vm) # NULL
    /\ vm.escapePoint = vm.eps[BodyOf(vm)].prev
    /\ ~vm.eps[BodyOf(vm)].rewindBefore
----------------------------------------------------------------------------
(* The frames that host-stack records and escape points refer to. *)

(* The continuation frames that the host-stack records and the escape   *)
(* points on the main chain and the floating chain refer to.            *)
ReferencedFrames(v) ==
    ({ v.cstk[i].cont : i \in CStackChain(v) } \cup
     { v.eps[e].cont : e \in EscapePointChain(v) \cup FloatingChain(v) }) \ { NULL }

(* The stack from this address on is what later pushes write: the end   *)
(* of the frame of vm->cont when it is in the stack, the stack base     *)
(* when it is not (POP_CONT of a heap frame, DISCARD_ENV).              *)
ReuseFrom(v) == IF IN_STACK_P(v, v.cont) THEN CONT_FRAME_END(v, v.cont) ELSE v.stackBase

(* The frame C is out of the reach of later pushes: it is in the heap,  *)
(* or it is in the stack on the chain of vm->cont, under the region     *)
(* that is reused.                                                      *)
OutOfReach(v, c) ==
    IN_STACK_P(v, c) =>
        /\ c + CONT_FRAME_SIZE <= ReuseFrom(v)
        /\ c \in Range(ContChain(v, v.cont))

(* C38: a continuation frame that a host-stack record or an escape      *)
(* point on the main or the floating chain refers to is never           *)
(* overwritten by later pushes: when Scheme code or the host program    *)
(* runs, no such frame lies in the region of the stack that pushes      *)
(* reuse.                                                               *)
C38_ReferencedFramesIntact ==
    (~Halted(vm) /\ vm.next.op \in {"scheme", "host", "reinstated"}) =>
        \A c \in ReferencedFrames(vm) : OutOfReach(vm, c)
----------------------------------------------------------------------------
(* The requests that arrive while the queue is processed. *)

(* The flags that the passes of process_queued_requests in progress     *)
(* have still to test: those ahead of the VM's thread in the pass it is *)
(* in, and those ahead in the passes that wait for a handler to return. *)
FlagsAhead(v) ==
    (CASE v.next.op \in {"process_queued_requests", "test signalPending"} ->
              {"signalPending", "finalizerPending", "stopRequest"}
       [] v.next.op = "test finalizerPending" -> {"finalizerPending", "stopRequest"}
       [] v.next.op \in {"test stopRequest", "stop_lock", "stop_locked"} -> {"stopRequest"}
       [] OTHER -> {})
    \cup UNION { CASE v.cstk[i].caller.fn = "Scm_SigCheck" ->
                          {"finalizerPending", "stopRequest"}
                   [] v.cstk[i].caller.fn = "Scm_VMFinalizerRun" -> {"stopRequest"}
                   [] OTHER -> {}
                 : i \in CStackChain(v) }

(* The requests that are queued: the flag is set and the thread that    *)
(* set it has set attentionRequest after it.                            *)
QueuedRequests ==
    { f \in {"signalPending", "finalizerPending", "stopRequest"} : vm[f] }
    \ ((IF threads.signal = "queued" THEN {"signalPending"} ELSE {}) \cup
       (IF threads.finalizer = "queued" THEN {"finalizerPending"} ELSE {}) \cup
       (IF threads.controller = "requesting" THEN {"stopRequest"} ELSE {}))

(* C39: no queued request is lost: attentionRequest is cleared before   *)
(* signalPending, finalizerPending and stopRequest are tested, so that, *)
(* whatever the interleaving of the threads that queue requests with    *)
(* the VM's thread, a request whose flag is set is tested in a pass in  *)
(* progress, or attentionRequest is set and the queue is processed at   *)
(* the next instruction boundary.                                       *)
C39_NoRequestLost ==
    ~Halted(vm) =>
        \A f \in QueuedRequests : vm.attentionRequest \/ f \in FlagsAhead(vm)

(* A signal was queued after the pass in progress tested signalPending, *)
(* in which a finalizer queued after the pass began is run:             *)
(* attentionRequest is set again.                                       *)
C39_Witness ==
    /\ ~Halted(vm)
    /\ "signalPending" \in QueuedRequests
    /\ "signalPending" \notin FlagsAhead(vm)
    /\ vm.attentionRequest
    /\ vm.next.op = "scheme" /\ vm.base = Finalizer
    /\ \E i \in CStackChain(vm) : vm.cstk[i].caller.fn = "Scm_VMFinalizerRun"

(* A request was queued between the clearing of attentionRequest and    *)
(* the test of its flag, and the thread that queued it has not yet set  *)
(* attentionRequest; the pass handles it.                               *)
C39_WitnessSamePass ==
    /\ vm.next.op = "test finalizerPending"
    /\ vm.finalizerPending
    /\ threads.finalizer = "queued"
    /\ ~vm.attentionRequest

(* A stop request is queued and attentionRequest is clear: the pass in  *)
(* progress has it ahead.                                               *)
C39_WitnessStop ==
    /\ ~Halted(vm)
    /\ "stopRequest" \in QueuedRequests
    /\ ~vm.attentionRequest
    /\ vm.next.op = "test stopRequest"
----------------------------------------------------------------------------
(* The port of a thread that has ended. *)

(* The VM t has taken the step `at' of PORT_LOCK. *)
PortLockStepOf(t, at) ==
    last'.i.k = "PORT_LOCK" /\ last'.i.vm = t /\ last'.i.at = at

(* The VMs whose thread has ended with the port locked. *)
DeadOwners == { u \in Instances : ~Live(u) /\ port.lockOwner = u }

(* The live VMs that are in PORT_LOCK for a port they do not own. *)
Contenders ==
    { t \in Instances :
        Live(t) /\ threads[t].pc \in PortLockSteps /\ port.lockOwner # t }

(* C40: a port whose lockOwner is a VM in state SCM_VM_TERMINATED is    *)
(* treated as unlocked: the PORT_LOCK of a contending VM that finds it  *)
(* takes it, with the fastlock locked, and sets lockCount to 1 whatever *)
(* the count was; the port of a live VM is never taken over.  So the    *)
(* port of a VM that ended without unlocking does not stay locked by it *)
(* for ever while another VM contends for it.                           *)
C40_DeadOwnerTakeover ==
    /\ [][\A t \in Instances :
             (/\ PortLockStepOf(t, "owner__ == NULL")
              /\ threads[t].owner__ # NULL) =>
                 IF threads[threads[t].owner__].state = "TERMINATED"
                 THEN threads'[t].pc = "lockOwner = vm"
                 ELSE threads'[t].pc = "FASTLOCK_UNLOCK" /\ port' = port]_vars
    /\ [](\A t \in Instances :
            threads[t].pc \in {"lockOwner = vm", "lockCount = 1"} =>
                /\ port.lock = t
                /\ port.lockOwner \in {NULL, t} \cup DeadOwners)
    /\ [][\A t \in Instances :
             PortLockStepOf(t, "lockCount = 1") =>
                 /\ port.lockOwner = t /\ port.lock = t
                 /\ port'.lockCount = 1 /\ port'.lockOwner = t]_vars
    /\ [][\A t \in Instances :
             (PortLockStepOf(t, "lockOwner == vm") /\ threads'[t].pc = "idle") =>
                 /\ port'.lockOwner = t
                 /\ port'.lockCount = 1
                 /\ threads'[t].locks = 1]_vars
    /\ [][(port'.lockOwner # port.lockOwner /\ port.lockOwner # NULL
                                            /\ port'.lockOwner # NULL) =>
             /\ ~Live(port.lockOwner)
             /\ Live(port'.lockOwner)
             /\ port.lock = port'.lockOwner
             /\ PortLockStepOf(port'.lockOwner, "lockOwner = vm")]_vars
    /\ \A u \in Instances :
          (u \in DeadOwners /\ Contenders # {}) ~> (u \notin DeadOwners)

(* A VM has taken the port of a VM that ended with two locks on it, and *)
(* has it with lockCount 1.                                             *)
C40_Witness ==
    \E t \in Instances :
        /\ Live(t)
        /\ last.i.k = "PORT_LOCK" /\ last.i.vm = t /\ last.i.at = "lockOwner == vm"
        /\ threads[t].pc = "idle"
        /\ threads[t].owner__ # NULL
        /\ ~Live(threads[t].owner__)
        /\ threads[threads[t].owner__].locks = MaxLockCount
        /\ port.lockOwner = t
        /\ port.lockCount = 1

(* A VM that contends for the port has stored itself in lockOwner: the  *)
(* count is still the one of the dead owner.                            *)
C40_WitnessCount ==
    \E t \in Instances :
        /\ threads[t].pc = "lockCount = 1"
        /\ port.lockOwner = t
        /\ port.lockCount = MaxLockCount
        /\ ~Live(threads[t].owner__)

(* The VM for which the private port was locked with PORT_PRELOCK has   *)
(* ended, and another VM has taken the port.                            *)
C40_WitnessPrelocked ==
    /\ ~Live(1)
    /\ threads[1].locks = 1
    /\ \E t \in Instances \ {1} :
          /\ threads[t].owner__ = 1
          /\ port.lockOwner = t
          /\ threads[t].locks = 1
    /\ \A t \in Instances : threads[t].locks <= 1

(* A VM reads a live owner under the fastlock and leaves the port. *)
C40_WitnessLive ==
    \E t \in Instances :
        /\ last.i.k = "PORT_LOCK" /\ last.i.vm = t /\ last.i.at = "owner__ == NULL"
        /\ threads[t].pc = "FASTLOCK_UNLOCK"
        /\ threads[t].owner__ # NULL
        /\ Live(threads[t].owner__)
=============================================================================
